---- MODULE Spec2Model ----
(***************************************************************************)
(* Model of the e-commerce backend (FastAPI + SQLAlchemy on PostgreSQL):   *)
(* shopping cart, reviews and rating aggregation, categories, products and *)
(* the product listing endpoint.                                           *)
(*                                                                         *)
(* The database is the only shared state.  The application serves its      *)
(* requests on one event loop, each request in a session of its own, and   *)
(* a handler gives the loop to the other requests at every database round  *)
(* trip it awaits.  Every handler is therefore modelled as the sequence of *)
(* its round trips, one action each, one worker per request in flight: a   *)
(* statement sees what is committed when it runs (READ COMMITTED), the ORM *)
(* writes its pending changes when the handler commits, and a row written  *)
(* by a statement is locked until its session commits.  A commit with a    *)
(* pending change is two round trips and two actions: the flush sends the  *)
(* INSERT, UPDATE or DELETE (an INSERT takes the next id of the table's    *)
(* sequence, an UPDATE or DELETE waits for the lock of the row and keeps   *)
(* it), the COMMIT makes the change visible and releases the lock, so rows *)
(* need not become visible in the order of their ids.  A select with       *)
(* selectinload is two round trips too when it finds a row.                *)
(***************************************************************************)
EXTENDS Integers, Sequences, FiniteSets, TLC

VARIABLES
    products,      \* products table: id -> row
    cart_items,    \* cart_items table: set of rows
    next_cart_id,  \* next value of the cart_items.id sequence
    reviews,       \* reviews table: id -> row, of the committed rows
    next_review_id,   \* next value of the reviews.id sequence
    categories,    \* categories table: id -> row, of the committed rows
    next_category_id, \* next value of the categories.id sequence
    added,         \* history: per (user, product) what add has merged so far
    alone,         \* history: per worker, no other request was in flight
                   \* since its request started
    pc,            \* per worker: the await its request stands at
    req,           \* per worker: the request being served
    loc,           \* per worker: session-local objects of the request
    res            \* per worker: response of its last finished request

vars == <<products, cart_items, next_cart_id, reviews, next_review_id,
          categories, next_category_id, added, alone, pc, req, loc, res>>

----------------------------------------------------------------------------
(* Bounds of the model *)

MaxQty == 5
MaxCartId == 3

\* the ids of the users and of the rows of the products table
Users == {1, 2}
ProductIds == {1, 2}
\* ids a request may name: the existing products and one id of no product
RequestProductIds == ProductIds \cup {3}
AddQuantities == 1..3

\* Python None for integer valued optionals
None == -1

----------------------------------------------------------------------------
(* Rational numbers, for the rating: <<numerator, denominator>> reduced *)

RECURSIVE Gcd(_, _)
Gcd(a, b) == IF b = 0 THEN a ELSE Gcd(b, a % b)

Ratio(n, d) == LET g == Gcd(n, d) IN [num |-> n \div g, den |-> d \div g]
Zero == [num |-> 0, den |-> 1]

----------------------------------------------------------------------------
(* db_services.py *)

\* check_product_id: the active product with this id, or 404
\* a check that looks the product up by id alone
check_product_id_any(prods, product_id) == product_id \in DOMAIN prods

check_product_id(prods, product_id) ==
    product_id \in DOMAIN prods /\ prods[product_id].is_active

NoRow == [id |-> 0, user_id |-> 0, product_id |-> 0, quantity |-> 0]

MatchingCartItems(items, user_id, product_id) ==
    {r \in items : r.user_id = user_id /\ r.product_id = product_id}

\* get_cart_item: .first() of the rows of (user, product), None when there is none
get_cart_item(items, user_id, product_id) ==
    LET m == MatchingCartItems(items, user_id, product_id) IN
    IF m = {} THEN NoRow
    ELSE CHOOSE r \in m : \A o \in m : r.id <= o.id

----------------------------------------------------------------------------
(* models/cart_items.py: UniqueConstraint("user_id", "product_id") *)

NoUniqueConstraint(items, user_id, product_id) == TRUE

uq_cart_items_user_product(items, user_id, product_id) ==
    MatchingCartItems(items, user_id, product_id) = {}

----------------------------------------------------------------------------
(* What a flush writes to cart_items *)

InsertCartItem(items, id, user_id, product_id, quantity) ==
    items \cup {[id |-> id, user_id |-> user_id, product_id |-> product_id,
                 quantity |-> quantity]}

\* an UPDATE that adds to the stored quantity
UpdateQuantityAdding(items, id, quantity) ==
    {IF r.id = id THEN [r EXCEPT !.quantity = @ + quantity] ELSE r : r \in items}

\* UPDATE cart_items SET quantity = :q WHERE id = :id
UpdateQuantity(items, id, quantity) ==
    {IF r.id = id THEN [r EXCEPT !.quantity = quantity] ELSE r : r \in items}

\* a DELETE keyed by the product of the row instead of the row
DeleteCartItemsOfProduct(items, id) ==
    {r \in items : \A o \in items : o.id = id => r.product_id # o.product_id}

\* DELETE FROM cart_items WHERE id = :id
DeleteCartItem(items, id) == {r \in items : r.id # id}

\* a DELETE without its WHERE clause
DeleteEveryCart(items, user_id) == {}

\* DELETE FROM cart_items WHERE user_id = :user_id
DeleteUserCart(items, user_id) == {r \in items : r.user_id # user_id}

RowExists(items, id) == \E r \in items : r.id = id

----------------------------------------------------------------------------
(* routers/cart.py: what the handlers compute between their awaits *)

\* cart_item.quantity += cart_item_create.quantity
MergedQuantityOverwrite(old, quantity) == quantity

MergedQuantity(old, quantity) == old + quantity

RECURSIVE SortById(_)
\* ORDER BY cart_items.id
SortById(rows) ==
    IF rows = {} THEN <<>>
    ELSE LET r == CHOOSE x \in rows : \A o \in rows : x.id <= o.id
         IN <<r>> \o SortById(rows \ {r})

\* a total that counts the lines instead of their quantities
RECURSIVE SumQuantityOfOne(_)
SumQuantityOfOne(items) ==
    IF items = <<>> THEN 0 ELSE 1 + SumQuantityOfOne(Tail(items))

RECURSIVE SumQuantity(_)
SumQuantity(items) ==
    IF items = <<>> THEN 0 ELSE Head(items).quantity + SumQuantity(Tail(items))

RECURSIVE SumPriceOfActive(_, _)
\* a total that leaves out the lines of inactive products
SumPriceOfActive(items, prods) ==
    IF items = <<>> THEN 0
    ELSE (IF prods[Head(items).product_id].is_active
          THEN Head(items).quantity * prods[Head(items).product_id].price
          ELSE 0)
         + SumPriceOfActive(Tail(items), prods)

RECURSIVE SumPrice(_, _)
\* quantity * product.price over the lines (price None counted as 0)
SumPrice(items, prods) ==
    IF items = <<>> THEN 0
    ELSE Head(items).quantity
           * (IF prods[Head(items).product_id].price # None
              THEN prods[Head(items).product_id].price ELSE 0)
         + SumPrice(Tail(items), prods)

\* CartSchema(user_id, items, total_quantity, total_price) of the lines read
\* and of the products loaded for them
CartView(lines, prods, user_id) ==
    [status |-> 200, detail |-> "", user_id |-> user_id, items |-> lines,
     total_quantity |-> SumQuantity(lines),
     total_price |-> SumPrice(lines, prods)]

\* select(CartItem).where(user_id == ...).order_by(CartItem.id)
SelectCart(items, user_id) == SortById({r \in items : r.user_id = user_id})

----------------------------------------------------------------------------
(* db_services.py / routers/reviews.py: reviews and the rating aggregate   *)

MaxReviews == 2
Grades == {3, 5}
ReviewIds == 1..MaxReviews

ActiveReviewsOf(revs, product_id) ==
    {i \in DOMAIN revs : revs[i].product_id = product_id /\ revs[i].is_active}

\* every review of the product, the soft-deleted ones too
AllReviewsOf(revs, product_id) ==
    {i \in DOMAIN revs : revs[i].product_id = product_id}

RECURSIVE SumGrades(_, _)
SumGrades(revs, ids) ==
    IF ids = {} THEN 0
    ELSE LET i == CHOOSE x \in ids : TRUE
         IN revs[i].grade + SumGrades(revs, ids \ {i})

\* the average taken over every review, active or not
AvgGradeAll(revs, product_id) ==
    LET ids == AllReviewsOf(revs, product_id) IN
    IF ids = {} THEN Zero ELSE Ratio(SumGrades(revs, ids), Cardinality(ids))

\* select(func.avg(Review.grade)).where(product_id, is_active); scalar() or 0.0
AvgGrade(revs, product_id) ==
    LET ids == ActiveReviewsOf(revs, product_id) IN
    IF ids = {} THEN Zero ELSE Ratio(SumGrades(revs, ids), Cardinality(ids))

RECURSIVE PowerOfTwo(_)
\* a fraction in lowest terms is a number a float holds exactly, and avg
\* returns exactly, when its denominator is a power of two
PowerOfTwo(n) == n = 1 \/ (n > 1 /\ n % 2 = 0 /\ PowerOfTwo(n \div 2))

\* product_db.raiting = avg_rating leaves the attribute unchanged, and the
\* flush writes nothing, when the Decimal of the average equals the float
\* loaded: the same number, and one a float holds exactly
SameValue(avg, raiting) == avg = raiting /\ PowerOfTwo(avg.den)

\* check_review_id: the active review of an active product, or 404
check_review_id(prods, revs, review_id) ==
    /\ review_id \in DOMAIN revs
    /\ revs[review_id].is_active
    /\ prods[revs[review_id].product_id].is_active

NewReview(user_id, product_id, grade) ==
    [user_id |-> user_id, product_id |-> product_id, grade |-> grade,
     is_active |-> TRUE]

\* an author check that lets every buyer through
NotTheAuthorNever(review, user_id) == FALSE

\* if review_db.user_id != current_user.id
NotTheAuthor(review, user_id) == review.user_id # user_id

----------------------------------------------------------------------------
(* routers/products.py: get_all_products.                                  *)
(* A search text is a sequence of tokens, a word ("a", "b") or whitespace  *)
(* (" ").  A product's tsv gives, per language configuration, the weight   *)
(* of each word in it (0: the lexeme is absent).  websearch_to_tsquery     *)
(* requires every word of the text; ts_rank_cd is 0 for a vector that does *)
(* not satisfy the query and grows with the weights of the words found;    *)
(* the score is kept as an integer.                                        *)

Words == {"a", "b"}
Languages == {"english", "russian"}

RECURSIVE LStrip(_)
LStrip(text) ==
    IF text # <<>> /\ Head(text) = " " THEN LStrip(Tail(text)) ELSE text

RECURSIVE RStrip(_)
RStrip(text) ==
    IF text # <<>> /\ text[Len(text)] = " "
    THEN RStrip(SubSeq(text, 1, Len(text) - 1)) ELSE text

\* search.strip()
Strip(text) == RStrip(LStrip(text))

\* if search: ... if search_value:
Searching(q) ==
    /\ q.search.given
    /\ q.search.text # <<>>
    /\ Strip(q.search.text) # <<>>

\* func.websearch_to_tsquery(language, search_value): the words required
websearch_to_tsquery(language, search_value) ==
    {search_value[i] : i \in {j \in DOMAIN search_value : search_value[j] \in Words}}

\* Product.tsv.op('@@')(ts_query): a query without lexemes matches nothing
TsMatch(tsv, language, ts_query) ==
    /\ ts_query # {}
    /\ \A w \in ts_query : tsv[language][w] > 0

RECURSIVE SumWeights(_, _)
SumWeights(weights, ws) ==
    IF ws = {} THEN 0
    ELSE LET w == CHOOSE x \in ws : TRUE
         IN weights[w] + SumWeights(weights, ws \ {w})

\* func.ts_rank_cd(Product.tsv, ts_query)
ts_rank_cd(tsv, language, ts_query) ==
    IF TsMatch(tsv, language, ts_query)
    THEN SumWeights(tsv[language], ts_query) ELSE 0

Greatest(x, y) == IF x >= y THEN x ELSE y

\* ts_match_any = or_(tsv @@ ts_query_eng, tsv @@ ts_query_rus)
ts_match_any(tsv, search_value) ==
    \/ TsMatch(tsv, "english", websearch_to_tsquery("english", search_value))
    \/ TsMatch(tsv, "russian", websearch_to_tsquery("russian", search_value))

\* rank_col = greatest(ts_rank_cd(tsv, eng), ts_rank_cd(tsv, rus))
rank_col(tsv, search_value) ==
    Greatest(ts_rank_cd(tsv, "english", websearch_to_tsquery("english", search_value)),
             ts_rank_cd(tsv, "russian", websearch_to_tsquery("russian", search_value)))

\* the filters list before the search filter is appended
BaseFilters(q) ==
    {"is_active"}
    \cup (IF q.category_id # None THEN {"category_id"} ELSE {})
    \cup (IF q.min_price # None THEN {"min_price"} ELSE {})
    \cup (IF q.max_price # None THEN {"max_price"} ELSE {})
    \cup (IF q.in_stock # "null" THEN {"in_stock"} ELSE {})
    \cup (IF q.seller_id # None THEN {"seller_id"} ELSE {})

\* the filters list the page query is built from
Filters(q) ==
    BaseFilters(q) \cup (IF Searching(q) THEN {"ts_match_any"} ELSE {})

\* the count taken without the search filter
TotalFiltersBeforeSearch(q) == BaseFilters(q)

\* the filters of total_stmt: rebuilt after the search filter is appended
TotalFilters(q) == IF Searching(q) THEN Filters(q) ELSE BaseFilters(q)

FilterHolds(f, product, q) ==
    CASE f = "is_active" -> product.is_active
      [] f = "category_id" -> product.category_id = q.category_id
      [] f = "min_price" -> product.price >= q.min_price
      [] f = "max_price" -> product.price <= q.max_price
      [] f = "in_stock" -> IF q.in_stock = "true" THEN product.stock > 0
                           ELSE product.stock = 0
      [] f = "seller_id" -> product.seller_id = q.seller_id
      [] f = "ts_match_any" -> ts_match_any(product.tsv, Strip(q.search.text))

\* select(...).where(*filters)
Where(prods, filters, q) ==
    {id \in DOMAIN prods : \A f \in filters : FilterHolds(f, prods[id], q)}

RECURSIVE OrderById(_)
\* .order_by(Product.id)
OrderById(ids) ==
    IF ids = {} THEN <<>>
    ELSE LET first == CHOOSE x \in ids : \A o \in ids : x <= o
         IN <<first>> \o OrderById(ids \ {first})

RECURSIVE OrderByRankDescId(_, _)
\* .order_by(desc(rank_col), Product.id)
OrderByRankDescId(ids, rank) ==
    IF ids = {} THEN <<>>
    ELSE LET first == CHOOSE x \in ids : \A o \in ids :
                          \/ rank[x] > rank[o]
                          \/ rank[x] = rank[o] /\ x <= o
         IN <<first>> \o OrderByRankDescId(ids \ {first}, rank)

\* an offset that skips the requested page too
OffsetOffByOne(page, page_size) == page * page_size

\* .offset((page - 1) * page_size)
Offset(page, page_size) == (page - 1) * page_size

\* .offset(offset).limit(limit)
OffsetLimit(rows, offset, limit) ==
    SubSeq(rows, offset + 1,
           IF offset + limit <= Len(rows) THEN offset + limit ELSE Len(rows))

\* a value of ProductList.ranks (list[float] | None) as it is serialised
JsonNull == [type |-> "null", values |-> <<>>]
JsonArray(values) == [type |-> "array", values |-> values]

\* a range check that refuses equal bounds too
InvalidPriceRangeOrEqual(q) ==
    q.min_price # None /\ q.max_price # None /\ q.min_price >= q.max_price

\* min_price is not None and max_price is not None and min_price > max_price
InvalidPriceRange(q) ==
    q.min_price # None /\ q.max_price # None /\ q.min_price > q.max_price

\* total = await db.scalar(total_stmt) or 0
CountProducts(prods, q) == Cardinality(Where(prods, TotalFilters(q), q))

\* the page query (products_stmt) and the items and ranks made of its rows
SelectPage(prods, q) ==
    LET matching == Where(prods, Filters(q), q)
        rank == [id \in matching |-> rank_col(prods[id].tsv, Strip(q.search.text))]
        rows == IF Searching(q)
                THEN OffsetLimit(OrderByRankDescId(matching, rank),
                                 Offset(q.page, q.page_size), q.page_size)
                ELSE OffsetLimit(OrderById(matching),
                                 Offset(q.page, q.page_size), q.page_size)
    IN [items |-> rows,
        \* ranks = [] unless the search branch fills it
        ranks |-> IF Searching(q)
                  THEN JsonArray([i \in DOMAIN rows |-> rank[rows[i]]])
                  ELSE JsonArray(<<>>)]

\* the response body, of the fields the handler returns
ProductList(status, page, total, q) ==
    [status |-> status, items |-> page.items, ranks |-> page.ranks,
     total |-> total, page |-> q.page, page_size |-> q.page_size]

\* raise HTTPException(400): no body of a listing
RangeError(q) ==
    ProductList(400, [items |-> <<>>, ranks |-> JsonNull], 0, q)

\* the answer to q when nothing is committed between its two queries
GetAllProducts(prods, q) ==
    IF InvalidPriceRange(q) THEN RangeError(q)
    ELSE ProductList(200, SelectPage(prods, q), CountProducts(prods, q), q)

----------------------------------------------------------------------------
(* routers/categories.py: the category tree *)

MaxCategories == 4

Category(name, parent_id) ==
    [name |-> name, is_active |-> TRUE, parent_id |-> parent_id]

\* the two categories the products of the catalogues belong to
CategoryRoots == <<Category("aaa", None), Category("bbb", None)>>

\* a lookup by id alone
ActiveCategoryOrNot(cats, category_id) == category_id \in DOMAIN cats

\* select(CategoryModel).where(id == category_id, is_active == True).first()
ActiveCategory(cats, category_id) ==
    category_id \in DOMAIN cats /\ cats[category_id].is_active

\* a check that never finds a category to be its own parent
IsOwnParentNever(parent_id, category_id) == FALSE

\* if parent.id == category_id
IsOwnParent(parent_id, category_id) == parent_id = category_id

----------------------------------------------------------------------------
(* routers/products.py: create_product and update_product.  The request    *)
(* carries the columns of ProductCreate; name and description are kept as *)
(* the tsv the database computes from them.                                *)

\* check_category_id: the active category, or 400
check_category_id(cats, category_id) == ActiveCategory(cats, category_id)

\* update(ProductModel).where(id == product_id).values(**model_dump())
UpdatedColumns(product, price, stock, category_id, tsv) ==
    [product EXCEPT !.price = price, !.stock = stock,
                    !.category_id = category_id, !.tsv = tsv]

----------------------------------------------------------------------------
(* The catalogue the cart and review models start from: active products    *)
(* of seller 1, no reviews, rating at its column default 0.                *)

NoTsv == [english |-> [a |-> 0, b |-> 0], russian |-> [a |-> 0, b |-> 0]]

Catalogue ==
    [id \in ProductIds |->
        [is_active |-> TRUE, price |-> 10 * id + 5, stock |-> id - 1,
         category_id |-> 1, seller_id |-> 1, raiting |-> Zero, tsv |-> NoTsv]]

----------------------------------------------------------------------------
(* Requests in flight.  A worker is a request with its session: pc is the  *)
(* await it stands at, loc what its session holds, res its response.       *)

Workers == {1, 2}

NoLock == <<>>

NoReq == [op |-> "none", user_id |-> 0, product_id |-> 0, quantity |-> 0,
          review_id |-> 0, grade |-> 0]
\* new_id: the id the INSERT of the session has taken, 0 when it has none
NoLoc == [cart_item |-> NoRow, deleting |-> {}, items |-> <<>>,
          product_id |-> 0, loaded |-> FALSE, raiting |-> Zero, avg |-> Zero,
          total |-> 0, lock |-> NoLock, new_id |-> 0]
NoRes == [status |-> 0, detail |-> ""]

NoAdded == [sum |-> 0, pure |-> TRUE]
NotOnlyAdded == [sum |-> 0, pure |-> FALSE]

InitIdle ==
    /\ pc = [w \in Workers |-> "idle"]
    /\ req = [w \in Workers |-> NoReq]
    /\ loc = [w \in Workers |-> NoLoc]
    /\ res = [w \in Workers |-> NoRes]
    /\ alone = [w \in Workers |-> TRUE]

InitCart ==
    /\ products = Catalogue
    /\ cart_items = {}
    /\ next_cart_id = 1
    /\ reviews = <<>>
    /\ next_review_id = 1
    /\ categories = CategoryRoots
    /\ next_category_id = Len(CategoryRoots) + 1
    /\ added = [pr \in Users \X ProductIds |-> NoAdded]
    /\ InitIdle

\* a cart_items row another session has deleted or updated but not yet
\* committed: a statement that writes the row waits for that commit
Locked(w, id) ==
    \E v \in Workers \ {w} :
        id \in loc[v].deleting \/ loc[v].lock = <<"cart_items", id>>

\* the table with the row of this id made visible
InsertRow(table, id, row) ==
    [i \in DOMAIN table \cup {id} |-> IF i = id THEN row ELSE table[i]]

\* a session has inserted a row of this (user, product) and not yet committed:
\* an INSERT of the same key waits on the unique index for that commit
InsertPending(w, user_id, product_id) ==
    \E v \in Workers \ {w} :
        /\ loc[v].new_id # 0
        /\ loc[v].cart_item.user_id = user_id
        /\ loc[v].cart_item.product_id = product_id

\* a row another session has updated (db.execute(update(...))) but not yet
\* committed: a statement that writes the row waits for that commit
RowLocked(w, table, id) == \E v \in Workers \ {w} : loc[v].lock = <<table, id>>

Goto(w, label) ==
    /\ pc' = [pc EXCEPT ![w] = label]
    /\ UNCHANGED <<req, res>>

Response(status, detail) == [status |-> status, detail |-> detail]

\* the handler returns: the response is sent
Finish(w, status) ==
    /\ pc' = [pc EXCEPT ![w] = "idle"]
    /\ res' = [res EXCEPT ![w] = Response(status, "")]
    /\ UNCHANGED req

\* raise HTTPException(status, detail), or an exception nothing handles (500)
Raise(w, status, detail) ==
    /\ pc' = [pc EXCEPT ![w] = "idle"]
    /\ res' = [res EXCEPT ![w] = Response(status, detail)]
    /\ UNCHANGED req

UnchangedTables ==
    UNCHANGED <<products, cart_items, next_cart_id, reviews, next_review_id,
                categories, next_category_id>>

\* the first await of the handler of a request
FirstStep(r) ==
    CASE r.op = "add" -> "add_check"
      [] r.op = "set" -> "set_check"
      [] r.op = "remove" -> "remove_get"
      [] r.op = "clear" -> "clear_execute"
      [] r.op = "view" -> "view_items"
      [] r.op = "delete_product" -> "delete_product_check"
      [] r.op = "create_product" -> "create_product_check"
      [] r.op = "update_product" -> "update_product_check"
      [] r.op = "create_review" -> "create_review_check"
      [] r.op = "update_review" -> "update_review_check"
      [] r.op = "delete_review" -> "delete_review_check"
      \* if category.parent_id is not None: ... await db.scalars(stmt)
      [] r.op = "create_category" ->
            IF r.parent_id = None THEN "create_category_flush"
            ELSE "create_category_parent"
      [] r.op = "update_category" -> "update_category_get"
      [] r.op = "delete_category" -> "delete_category_get"

(* The bounds of the model are bounds on the requests that arrive: a       *)
(* request is let in when the ids and the quantities it and the requests   *)
(* in flight can come to write are within the bounds, so that no handler   *)
(* is held up by a bound once it runs.                                     *)

\* where an add stands that has its INSERT or UPDATE still to send
BeforeAddFlush == {"add_check", "add_get", "add_get_product", "add_flush"}

\* the requests of the other sessions that have an INSERT still to send
ToInsert(w, op, labels) ==
    Cardinality({o \in Workers \ {w} : pc[o] \in labels /\ req[o].op = op})

\* the other sessions whose request on the line of (user, product) stands
\* at one of the labels
OnLine(w, user_id, product_id, labels) ==
    {o \in Workers \ {w} : /\ pc[o] \in labels
                            /\ req[o].user_id = user_id
                            /\ req[o].product_id = product_id}

\* the largest quantity the line of (user, product) holds, a session holds
\* of it, or a set_quantity in flight is to give it
LargestQuantity(w, user_id, product_id) ==
    LET qs == {r.quantity : r \in MatchingCartItems(cart_items, user_id, product_id)}
              \cup {loc[o].cart_item.quantity :
                       o \in {v \in Workers \ {w} :
                                 /\ loc[v].cart_item.user_id = user_id
                                 /\ loc[v].cart_item.product_id = product_id}}
              \cup {req[o].quantity :
                       o \in OnLine(w, user_id, product_id,
                                    {"set_check", "set_get", "set_get_product",
                                     "set_flush", "set_commit"})}
              \cup {0}
    IN CHOOSE q \in qs : \A x \in qs : x <= q

RECURSIVE SumRequested(_)
SumRequested(ws) ==
    IF ws = {} THEN 0
    ELSE LET o == CHOOSE x \in ws : TRUE
         IN req[o].quantity + SumRequested(ws \ {o})

\* the quantities the adds in flight have still to merge into the line
ToMerge(w, user_id, product_id) ==
    SumRequested(OnLine(w, user_id, product_id, BeforeAddFlush))

WithinBounds(w, r) ==
    CASE r.op = "add" ->
            /\ next_cart_id + ToInsert(w, "add", BeforeAddFlush) <= MaxCartId
            /\ LargestQuantity(w, r.user_id, r.product_id)
                  + ToMerge(w, r.user_id, r.product_id) + r.quantity <= MaxQty
      [] r.op = "set" ->
            r.quantity + ToMerge(w, r.user_id, r.product_id) <= MaxQty
      [] r.op = "create_review" ->
            next_review_id
              + ToInsert(w, "create_review",
                         {"create_review_check", "create_review_flush"})
              <= MaxReviews
      [] r.op = "create_category" ->
            next_category_id
              + ToInsert(w, "create_category",
                         {"create_category_parent", "create_category_flush"})
              <= MaxCategories
      [] OTHER -> TRUE

\* a request arrives and gets a session of its own (get_async_db)
Start(w, requests) ==
    /\ pc[w] = "idle"
    /\ \E r \in requests :
          /\ WithinBounds(w, r)
          /\ req' = [req EXCEPT ![w] = r]
          /\ pc' = [pc EXCEPT ![w] = FirstStep(r)]
    /\ res' = [res EXCEPT ![w] = NoRes]
    /\ loc' = [loc EXCEPT ![w] = NoLoc]
    /\ UnchangedTables

\* w is in its handler of a request of this kind
Serving(w, op) == pc[w] # "idle" /\ req[w].op = op

\* this step is one of w
Steps(w) == pc'[w] # pc[w]

(* History.  alone[w]: no other request was in flight at any moment of   *)
(* the request w serves, or has served last.                              *)
TrackAlone ==
    alone' = [v \in Workers |->
                 IF pc[v] = "idle"
                 THEN IF pc'[v] = "idle" THEN alone[v]
                      ELSE \A o \in Workers \ {v} : pc[o] = "idle"
                 ELSE /\ alone[v]
                      /\ \A o \in Workers \ {v} : pc[o] = "idle" /\ pc'[o] = "idle"]

\* the request whose step this is
Stepper == CHOOSE w \in Workers : pc'[w] # pc[w]

(* added[u, p]: the sum of the quantities merged into the line of (u, p)   *)
(* by add requests served one after another since the pair last had no     *)
(* line, and whether nothing else has written the line since then.         *)
TrackAdded ==
    LET w == Stepper
        merged == pc[w] = "add_commit" /\ pc'[w] = "add_reread"
    IN added' =
         [pr \in DOMAIN added |->
            IF MatchingCartItems(cart_items', pr[1], pr[2]) = {} THEN NoAdded
            ELSE IF pr = <<req[w].user_id, req[w].product_id>> /\ merged
            THEN IF alone[w] /\ added[pr].pure
                 THEN [added[pr] EXCEPT !.sum = @ + req[w].quantity]
                 ELSE NotOnlyAdded
            ELSE IF pr = <<req[w].user_id, req[w].product_id>> /\ pc[w] = "set_commit"
            THEN NotOnlyAdded
            ELSE IF MatchingCartItems(cart_items', pr[1], pr[2])
                      # MatchingCartItems(cart_items, pr[1], pr[2])
            THEN NotOnlyAdded
            ELSE added[pr]]

TrackHistory == TrackAlone /\ TrackAdded

NoHistory == UNCHANGED <<added, alone>>

----------------------------------------------------------------------------
(* routers/cart.py, one action per round trip.  A SELECT sees what is      *)
(* committed when it runs; the ORM writes its pending changes when the     *)
(* handler commits, in a flush (the UPDATE, INSERT or DELETE) and a COMMIT *)
(* after it.  get_cart_item is two round trips when it finds the line: the *)
(* select of the line, then selectinload's select of its product.          *)

CartRequest(op, user_id, product_id, quantity) ==
    [op |-> op, user_id |-> user_id, product_id |-> product_id,
     quantity |-> quantity, review_id |-> 0, grade |-> 0]

\* await check_product_id(...)
AddCheck(w) ==
    /\ pc[w] = "add_check"
    /\ IF check_product_id(products, req[w].product_id)
       THEN Goto(w, "add_get")
       ELSE Raise(w, 404, "Product not found or inactive")
    /\ UNCHANGED loc
    /\ UnchangedTables

\* cart_item = await get_cart_item(...), first round trip: the line
AddGet(w) ==
    /\ pc[w] = "add_get"
    /\ LET item == get_cart_item(cart_items, req[w].user_id, req[w].product_id) IN
       /\ loc' = [loc EXCEPT ![w].cart_item = item]
       /\ Goto(w, IF item = NoRow THEN "add_flush" ELSE "add_get_product")
    /\ UnchangedTables

\* second round trip of the same await: selectinload(CartItem.product)
AddGetProduct(w) ==
    /\ pc[w] = "add_get_product"
    /\ Goto(w, "add_flush")
    /\ UNCHANGED loc
    /\ UnchangedTables

\* quantity += ... or db.add(...), then await db.commit(), first round trip:
\* the flush sends the UPDATE of the line read, or the INSERT of the new line
AddFlush(w) ==
    /\ pc[w] = "add_flush"
    /\ UNCHANGED <<products, cart_items, reviews, next_review_id, categories,
                   next_category_id>>
    /\ LET item == loc[w].cart_item IN
       IF item # NoRow
       THEN /\ ~Locked(w, item.id)
            /\ UNCHANGED next_cart_id
            /\ IF RowExists(cart_items, item.id)
               THEN /\ loc' = [loc EXCEPT
                                  ![w].cart_item.quantity =
                                      MergedQuantity(item.quantity, req[w].quantity),
                                  ![w].lock = <<"cart_items", item.id>>]
                    /\ Goto(w, "add_commit")
               ELSE \* UPDATE matched no row: StaleDataError
                    /\ UNCHANGED loc
                    /\ Raise(w, 500, "Internal Server Error")
       ELSE /\ ~InsertPending(w, req[w].user_id, req[w].product_id)
            /\ \A r \in MatchingCartItems(cart_items, req[w].user_id, req[w].product_id) :
                   ~Locked(w, r.id)
            \* the id is taken from the sequence, whether or not the row goes in
            /\ next_cart_id' = next_cart_id + 1
            /\ IF uq_cart_items_user_product(cart_items, req[w].user_id,
                                             req[w].product_id)
               THEN /\ loc' = [loc EXCEPT
                                  ![w].cart_item =
                                      [id |-> next_cart_id,
                                       user_id |-> req[w].user_id,
                                       product_id |-> req[w].product_id,
                                       quantity |-> req[w].quantity],
                                  ![w].new_id = next_cart_id]
                    /\ Goto(w, "add_commit")
               ELSE \* duplicate key: IntegrityError, not handled
                    /\ UNCHANGED loc
                    /\ Raise(w, 500, "Internal Server Error")

\* second round trip of await db.commit(): COMMIT, the line becomes visible
AddCommit(w) ==
    /\ pc[w] = "add_commit"
    /\ LET item == loc[w].cart_item IN
       cart_items' = IF loc[w].new_id # 0
                     THEN InsertCartItem(cart_items, item.id, item.user_id,
                                         item.product_id, item.quantity)
                     ELSE UpdateQuantity(cart_items, item.id, item.quantity)
    /\ loc' = [loc EXCEPT ![w].lock = NoLock, ![w].new_id = 0]
    /\ Goto(w, "add_reread")
    /\ UNCHANGED <<products, next_cart_id, reviews, next_review_id, categories,
                   next_category_id>>

\* item = await get_cart_item(...), first round trip: the line; with no
\* line the handler returns None, which response_model CartItem refuses
AddReread(w) ==
    /\ pc[w] = "add_reread"
    /\ IF get_cart_item(cart_items, req[w].user_id, req[w].product_id) # NoRow
       THEN /\ Goto(w, "add_reread_product")
            /\ UNCHANGED loc
       ELSE /\ Raise(w, 500, "Internal Server Error")
            /\ loc' = [loc EXCEPT ![w] = NoLoc]
    /\ UnchangedTables

\* second round trip of the same await: the product of the line; return item
AddRereadProduct(w) ==
    /\ pc[w] = "add_reread_product"
    /\ Finish(w, 201)
    /\ loc' = [loc EXCEPT ![w] = NoLoc]
    /\ UnchangedTables

\* await check_product_id(...)
SetCheck(w) ==
    /\ pc[w] = "set_check"
    /\ IF check_product_id(products, req[w].product_id)
       THEN Goto(w, "set_get")
       ELSE Raise(w, 404, "Product not found or inactive")
    /\ UNCHANGED loc
    /\ UnchangedTables

\* cart_item = await get_cart_item(...), first round trip: the line; 404
\* when there is none
SetGet(w) ==
    /\ pc[w] = "set_get"
    /\ LET item == get_cart_item(cart_items, req[w].user_id, req[w].product_id) IN
       IF item = NoRow
       THEN /\ Raise(w, 404, "Cart item not found")
            /\ UNCHANGED loc
       ELSE /\ loc' = [loc EXCEPT ![w].cart_item = item]
            /\ Goto(w, "set_get_product")
    /\ UnchangedTables

\* second round trip of the same await: the product of the line; then
\* cart_item.quantity = ...: an attribute set to the value it has leaves
\* the flush nothing to write
SetGetProduct(w) ==
    /\ pc[w] = "set_get_product"
    /\ Goto(w, IF req[w].quantity = loc[w].cart_item.quantity
               THEN "set_commit" ELSE "set_flush")
    /\ UNCHANGED loc
    /\ UnchangedTables

\* await db.commit(), first round trip: the flush sends
\* UPDATE cart_items SET quantity = :q WHERE id = :id; the row stays locked
SetFlush(w) ==
    /\ pc[w] = "set_flush"
    /\ ~Locked(w, loc[w].cart_item.id)
    /\ IF RowExists(cart_items, loc[w].cart_item.id)
       THEN /\ loc' = [loc EXCEPT
                          ![w].cart_item.quantity = req[w].quantity,
                          ![w].lock = <<"cart_items", loc[w].cart_item.id>>]
            /\ Goto(w, "set_commit")
       ELSE \* UPDATE matched no row: StaleDataError
            /\ UNCHANGED loc
            /\ Raise(w, 500, "Internal Server Error")
    /\ UnchangedTables

\* second round trip of await db.commit(): COMMIT, the quantity written
\* becomes visible and the lock goes
SetCommit(w) ==
    /\ pc[w] = "set_commit"
    /\ cart_items' = IF loc[w].lock = NoLock THEN cart_items
                     ELSE UpdateQuantity(cart_items, loc[w].cart_item.id,
                                         loc[w].cart_item.quantity)
    /\ loc' = [loc EXCEPT ![w].lock = NoLock]
    /\ Goto(w, "set_reread")
    /\ UNCHANGED <<products, reviews, next_review_id, next_cart_id,
                   categories, next_category_id>>

\* item = await get_cart_item(...), first round trip: the line; with no
\* line the handler returns None, which response_model CartItem refuses
SetReread(w) ==
    /\ pc[w] = "set_reread"
    /\ IF get_cart_item(cart_items, req[w].user_id, req[w].product_id) # NoRow
       THEN /\ Goto(w, "set_reread_product")
            /\ UNCHANGED loc
       ELSE /\ Raise(w, 500, "Internal Server Error")
            /\ loc' = [loc EXCEPT ![w] = NoLoc]
    /\ UnchangedTables

\* second round trip of the same await: the product of the line; return item
SetRereadProduct(w) ==
    /\ pc[w] = "set_reread_product"
    /\ Finish(w, 200)
    /\ loc' = [loc EXCEPT ![w] = NoLoc]
    /\ UnchangedTables

\* cart_item = await get_cart_item(...), first round trip: the line; 404
\* when there is none
RemoveGet(w) ==
    /\ pc[w] = "remove_get"
    /\ LET item == get_cart_item(cart_items, req[w].user_id, req[w].product_id) IN
       IF item = NoRow
       THEN /\ Raise(w, 404, "Cart item not found")
            /\ UNCHANGED loc
       ELSE /\ loc' = [loc EXCEPT ![w].cart_item = item]
            /\ Goto(w, "remove_get_product")
    /\ UnchangedTables

\* second round trip of the same await: the product of the line
RemoveGetProduct(w) ==
    /\ pc[w] = "remove_get_product"
    /\ Goto(w, "remove_flush")
    /\ UNCHANGED loc
    /\ UnchangedTables

\* await db.delete(cart_item) marks the object; await db.commit(), first
\* round trip: the flush sends DELETE FROM cart_items WHERE id = :id, the
\* row stays locked (a DELETE that matches no row is only warned about)
RemoveFlush(w) ==
    /\ pc[w] = "remove_flush"
    /\ ~Locked(w, loc[w].cart_item.id)
    /\ loc' = [loc EXCEPT ![w].deleting =
                   {r.id : r \in cart_items \ DeleteCartItem(cart_items,
                                                             loc[w].cart_item.id)}]
    /\ Goto(w, "remove_commit")
    /\ UnchangedTables

\* second round trip of await db.commit(): COMMIT, the line is gone
RemoveCommit(w) ==
    /\ pc[w] = "remove_commit"
    /\ cart_items' = {r \in cart_items : r.id \notin loc[w].deleting}
    /\ loc' = [loc EXCEPT ![w] = NoLoc]
    /\ Finish(w, 204)
    /\ UNCHANGED <<products, reviews, next_review_id, next_cart_id,
                   categories, next_category_id>>

\* await db.execute(delete(CartItem).where(user_id == ...)): the rows are
\* deleted in the transaction of the session and locked until it commits
ClearExecute(w) ==
    /\ pc[w] = "clear_execute"
    /\ LET deleted == cart_items \ DeleteUserCart(cart_items, req[w].user_id) IN
       /\ \A r \in deleted : ~Locked(w, r.id)
       /\ loc' = [loc EXCEPT ![w].deleting = {r.id : r \in deleted}]
    /\ Goto(w, "clear_commit")
    /\ UnchangedTables

\* await db.commit()
ClearCommit(w) ==
    /\ pc[w] = "clear_commit"
    /\ cart_items' = {r \in cart_items : r.id \notin loc[w].deleting}
    /\ loc' = [loc EXCEPT ![w] = NoLoc]
    /\ Finish(w, 204)
    /\ UNCHANGED <<products, reviews, next_review_id, next_cart_id,
                   categories, next_category_id>>

\* get_cart: result = await db.scalars(select(CartItem)...), first round
\* trip: the lines of the user.  With no line there is nothing to load.
ViewItems(w) ==
    /\ pc[w] = "view_items"
    /\ LET lines == SelectCart(cart_items, req[w].user_id) IN
       IF lines = <<>>
       THEN /\ pc' = [pc EXCEPT ![w] = "idle"]
            /\ res' = [res EXCEPT ![w] = CartView(lines, products, req[w].user_id)]
            /\ UNCHANGED <<req, loc>>
       ELSE /\ loc' = [loc EXCEPT ![w].items = lines]
            /\ Goto(w, "view_products")
    /\ UnchangedTables

\* second round trip of the same await: selectinload(CartItem.product)
\* selects the products of the lines; then the totals and the response
ViewProducts(w) ==
    /\ pc[w] = "view_products"
    /\ pc' = [pc EXCEPT ![w] = "idle"]
    /\ res' = [res EXCEPT ![w] = CartView(loc[w].items, products, req[w].user_id)]
    /\ loc' = [loc EXCEPT ![w] = NoLoc]
    /\ UNCHANGED req
    /\ UnchangedTables

AddStep(w) ==
    \/ AddCheck(w) \/ AddGet(w) \/ AddGetProduct(w) \/ AddFlush(w)
    \/ AddCommit(w) \/ AddReread(w) \/ AddRereadProduct(w)

SetStep(w) ==
    \/ SetCheck(w) \/ SetGet(w) \/ SetGetProduct(w) \/ SetFlush(w)
    \/ SetCommit(w) \/ SetReread(w) \/ SetRereadProduct(w)

RemoveStep(w) ==
    \/ RemoveGet(w) \/ RemoveGetProduct(w) \/ RemoveFlush(w) \/ RemoveCommit(w)

CartStep(w) ==
    \/ AddStep(w) \/ SetStep(w) \/ RemoveStep(w)
    \/ ClearExecute(w) \/ ClearCommit(w)

ViewStep(w) == ViewItems(w) \/ ViewProducts(w)

----------------------------------------------------------------------------
(* routers/products.py: create_product, update_product and delete_product, *)
(* one action per round trip.  The request carries the columns of          *)
(* ProductCreate and no image.                                             *)

ProductRequest(op, user_id, product_id, price, stock, category_id) ==
    [op |-> op, user_id |-> user_id, product_id |-> product_id,
     price |-> price, stock |-> stock, category_id |-> category_id]

\* product_db = await check_product_id(...); the seller check
DeleteProductCheck(w) ==
    /\ pc[w] = "delete_product_check"
    /\ IF ~check_product_id(products, req[w].product_id)
       THEN Raise(w, 404, "Product not found or inactive")
       ELSE IF products[req[w].product_id].seller_id # req[w].user_id
       THEN Raise(w, 403, "You can only update your own products")
       ELSE Goto(w, "delete_product_flush")
    /\ UNCHANGED loc
    /\ UnchangedTables

\* product_db.is_active = False; await db.commit(), first round trip: the
\* flush sends UPDATE products SET is_active = false WHERE id = :id, the
\* row stays locked
DeleteProductFlush(w) ==
    /\ pc[w] = "delete_product_flush"
    /\ ~RowLocked(w, "products", req[w].product_id)
    /\ loc' = [loc EXCEPT ![w].lock = <<"products", req[w].product_id>>]
    /\ Goto(w, "delete_product_commit")
    /\ UnchangedTables

\* second round trip of await db.commit(): COMMIT, the product is seen
\* inactive and the lock goes
DeleteProductCommit(w) ==
    /\ pc[w] = "delete_product_commit"
    /\ products' = [products EXCEPT ![req[w].product_id].is_active = FALSE]
    /\ loc' = [loc EXCEPT ![w].lock = NoLock]
    /\ Goto(w, "delete_product_refresh")
    /\ UNCHANGED <<cart_items, next_cart_id, reviews, next_review_id,
                   categories, next_category_id>>

\* await db.refresh(product_db); return product_db
DeleteProductRefresh(w) ==
    /\ pc[w] = "delete_product_refresh"
    /\ Finish(w, 200)
    /\ UNCHANGED loc
    /\ UnchangedTables

DeleteProductStep(w) ==
    \/ DeleteProductCheck(w) \/ DeleteProductFlush(w)
    \/ DeleteProductCommit(w) \/ DeleteProductRefresh(w)

\* await check_category_id(product.category_id, db); then
\* ProductModel(**product.model_dump(), seller_id=..., image_url=image_url):
\* model_dump() holds image_url too, the call raises TypeError (a keyword
\* given twice) for every request, before db.add and the commit
CreateProductCheck(w) ==
    /\ pc[w] = "create_product_check"
    /\ IF check_category_id(categories, req[w].category_id)
       THEN Raise(w, 500, "Internal Server Error")
       ELSE Raise(w, 400, "Category not found or inactive")
    /\ UNCHANGED loc
    /\ UnchangedTables

\* product_db = await check_product_id(...); the seller check
UpdateProductCheck(w) ==
    /\ pc[w] = "update_product_check"
    /\ IF ~check_product_id(products, req[w].product_id)
       THEN Raise(w, 404, "Product not found or inactive")
       ELSE IF products[req[w].product_id].seller_id # req[w].user_id
       THEN Raise(w, 403, "You can only update your own products")
       ELSE Goto(w, "update_product_category")
    /\ UNCHANGED loc
    /\ UnchangedTables

\* await check_category_id(product_update.category_id, db)
UpdateProductCategory(w) ==
    /\ pc[w] = "update_product_category"
    /\ IF check_category_id(categories, req[w].category_id)
       THEN Goto(w, "update_product_execute")
       ELSE Raise(w, 400, "Category not found or inactive")
    /\ UNCHANGED loc
    /\ UnchangedTables

\* await db.execute(update(Product).where(id == product_id).values(...)):
\* the row is written in the transaction of the session and locked
UpdateProductExecute(w) ==
    /\ pc[w] = "update_product_execute"
    /\ ~RowLocked(w, "products", req[w].product_id)
    /\ loc' = [loc EXCEPT ![w].lock = <<"products", req[w].product_id>>]
    /\ Goto(w, "update_product_commit")
    /\ UnchangedTables

\* await db.commit(): the written columns become visible, the lock goes
UpdateProductCommit(w) ==
    /\ pc[w] = "update_product_commit"
    /\ products' = [products EXCEPT ![req[w].product_id] =
                       UpdatedColumns(@, req[w].price, req[w].stock,
                                      req[w].category_id, NoTsv)]
    /\ loc' = [loc EXCEPT ![w].lock = NoLock]
    /\ Goto(w, "update_product_refresh")
    /\ UNCHANGED <<cart_items, next_cart_id, reviews, next_review_id,
                   categories, next_category_id>>

\* await db.refresh(product_db); return product_db
UpdateProductRefresh(w) ==
    /\ pc[w] = "update_product_refresh"
    /\ Finish(w, 200)
    /\ UNCHANGED loc
    /\ UnchangedTables

UpdateProductStep(w) ==
    \/ UpdateProductCheck(w) \/ UpdateProductCategory(w) \/ UpdateProductExecute(w)
    \/ UpdateProductCommit(w) \/ UpdateProductRefresh(w)

ProductStep(w) == CreateProductCheck(w) \/ UpdateProductStep(w)

----------------------------------------------------------------------------
(* routers/reviews.py, one action per round trip.  Every handler commits   *)
(* its change of the review, then update_product_grade reads the average   *)
(* and commits the rating in a second transaction.  The sessions are made  *)
(* with expire_on_commit=False: what a session has loaded it keeps.        *)

ReviewRequest(op, user_id, product_id, review_id, grade) ==
    [op |-> op, user_id |-> user_id, product_id |-> product_id, quantity |-> 0,
     review_id |-> review_id, grade |-> grade]

\* product_db = await check_product_id(review_create.product_id, db):
\* the product is loaded into the session
CreateReviewCheck(w) ==
    /\ pc[w] = "create_review_check"
    /\ IF check_product_id(products, req[w].product_id)
       THEN /\ loc' = [loc EXCEPT ![w].product_id = req[w].product_id,
                                  ![w].loaded = TRUE,
                                  ![w].raiting = products[req[w].product_id].raiting]
            /\ Goto(w, "create_review_flush")
       ELSE /\ UNCHANGED loc
            /\ Raise(w, 404, "Product not found or inactive")
    /\ UnchangedTables

\* db.add(new_review); await db.commit(), first round trip: the flush sends
\* the INSERT, which takes the next id of the sequence
CreateReviewFlush(w) ==
    /\ pc[w] = "create_review_flush"
    /\ loc' = [loc EXCEPT ![w].new_id = next_review_id]
    /\ next_review_id' = next_review_id + 1
    /\ Goto(w, "create_review_commit")
    /\ UNCHANGED <<products, cart_items, next_cart_id, reviews, categories,
                   next_category_id>>

\* second round trip of await db.commit(): COMMIT, the review becomes visible
CreateReviewCommit(w) ==
    /\ pc[w] = "create_review_commit"
    /\ reviews' = InsertRow(reviews, loc[w].new_id,
                            NewReview(req[w].user_id, req[w].product_id, req[w].grade))
    /\ loc' = [loc EXCEPT ![w].new_id = 0]
    /\ Goto(w, "create_review_refresh")
    /\ UNCHANGED <<products, cart_items, next_cart_id, next_review_id, categories,
                   next_category_id>>

\* await db.refresh(new_review)
CreateReviewRefresh(w) ==
    /\ pc[w] = "create_review_refresh"
    /\ Goto(w, "grade_avg")
    /\ UNCHANGED loc
    /\ UnchangedTables

\* review_db = await check_review_id(review_id, db); the author check
UpdateReviewCheck(w) ==
    /\ pc[w] = "update_review_check"
    /\ IF ~check_review_id(products, reviews, req[w].review_id)
       THEN /\ UNCHANGED loc
            /\ Raise(w, 404, "Review not found")
       ELSE IF NotTheAuthor(reviews[req[w].review_id], req[w].user_id)
       THEN /\ UNCHANGED loc
            /\ Raise(w, 403, "You can only update your own reviews")
       ELSE /\ loc' = [loc EXCEPT ![w].product_id =
                           reviews[req[w].review_id].product_id]
            /\ Goto(w, "update_review_execute")
    /\ UnchangedTables

\* await db.execute(update(Review).where(id == review_id).values(...)):
\* the row is written in the transaction of the session and locked
UpdateReviewExecute(w) ==
    /\ pc[w] = "update_review_execute"
    /\ ~RowLocked(w, "reviews", req[w].review_id)
    /\ loc' = [loc EXCEPT ![w].lock = <<"reviews", req[w].review_id>>]
    /\ Goto(w, "update_review_commit")
    /\ UnchangedTables

\* await db.commit(): the new grade becomes visible, the lock goes
UpdateReviewCommit(w) ==
    /\ pc[w] = "update_review_commit"
    /\ reviews' = [reviews EXCEPT ![req[w].review_id].grade = req[w].grade]
    /\ loc' = [loc EXCEPT ![w].lock = NoLock]
    /\ Goto(w, "update_review_refresh")
    /\ UNCHANGED <<products, cart_items, next_cart_id, next_review_id,
                   categories, next_category_id>>

\* await db.refresh(review_db)
UpdateReviewRefresh(w) ==
    /\ pc[w] = "update_review_refresh"
    /\ Goto(w, "grade_avg")
    /\ UNCHANGED loc
    /\ UnchangedTables

\* review_db = await check_review_id(review_id, db)
DeleteReviewCheck(w) ==
    /\ pc[w] = "delete_review_check"
    /\ IF ~check_review_id(products, reviews, req[w].review_id)
       THEN /\ UNCHANGED loc
            /\ Raise(w, 404, "Review not found")
       ELSE /\ loc' = [loc EXCEPT ![w].product_id =
                           reviews[req[w].review_id].product_id]
            /\ Goto(w, "delete_review_flush")
    /\ UnchangedTables

\* review_db.is_active = False; await db.commit(), first round trip: the
\* flush sends UPDATE reviews SET is_active = false WHERE id = :id, the
\* row stays locked
DeleteReviewFlush(w) ==
    /\ pc[w] = "delete_review_flush"
    /\ ~RowLocked(w, "reviews", req[w].review_id)
    /\ loc' = [loc EXCEPT ![w].lock = <<"reviews", req[w].review_id>>]
    /\ Goto(w, "delete_review_commit")
    /\ UnchangedTables

\* second round trip of await db.commit(): COMMIT, the review is seen
\* inactive and the lock goes
DeleteReviewCommit(w) ==
    /\ pc[w] = "delete_review_commit"
    /\ reviews' = [reviews EXCEPT ![req[w].review_id].is_active = FALSE]
    /\ loc' = [loc EXCEPT ![w].lock = NoLock]
    /\ Goto(w, "grade_avg")
    /\ UNCHANGED <<products, cart_items, next_cart_id, next_review_id,
                   categories, next_category_id>>

\* product_db.raiting = avg_rating; await db.commit(): the flush has an
\* UPDATE to send unless the attribute is left as it was loaded
AfterAssign(avg, raiting) ==
    IF SameValue(avg, raiting) THEN "grade_commit" ELSE "grade_flush"

\* update_product_grade: result = await db.execute(select(func.avg(...)))
\* db.get after it awaits the database only if the session has not loaded
\* the product
GradeAvg(w) ==
    /\ pc[w] = "grade_avg"
    /\ LET avg == AvgGrade(reviews, loc[w].product_id) IN
       /\ loc' = [loc EXCEPT ![w].avg = avg]
       /\ Goto(w, IF loc[w].loaded THEN AfterAssign(avg, loc[w].raiting)
                  ELSE "grade_get")
    /\ UnchangedTables

\* update_product_grade: product_db = await db.get(ProductModel, product_id)
GradeGet(w) ==
    /\ pc[w] = "grade_get"
    /\ LET raiting == products[loc[w].product_id].raiting IN
       /\ loc' = [loc EXCEPT ![w].loaded = TRUE, ![w].raiting = raiting]
       /\ Goto(w, AfterAssign(loc[w].avg, raiting))
    /\ UnchangedTables

\* update_product_grade: await db.commit(), first round trip: the flush
\* sends UPDATE products SET raiting = :avg WHERE id = :id, the row stays
\* locked
GradeFlush(w) ==
    /\ pc[w] = "grade_flush"
    /\ ~RowLocked(w, "products", loc[w].product_id)
    /\ loc' = [loc EXCEPT ![w].lock = <<"products", loc[w].product_id>>]
    /\ Goto(w, "grade_commit")
    /\ UnchangedTables

\* second round trip of await db.commit(): COMMIT, the rating written (if
\* any) becomes visible; then the handler returns
GradeCommit(w) ==
    /\ pc[w] = "grade_commit"
    /\ products' = IF loc[w].lock = NoLock THEN products
                   ELSE [products EXCEPT ![loc[w].product_id].raiting = loc[w].avg]
    /\ loc' = [loc EXCEPT ![w] = NoLoc]
    /\ Finish(w, 200)
    /\ UNCHANGED <<reviews, next_review_id, cart_items, next_cart_id,
                   categories, next_category_id>>

ReviewStep(w) ==
    \/ CreateReviewCheck(w) \/ CreateReviewFlush(w) \/ CreateReviewCommit(w)
    \/ CreateReviewRefresh(w)
    \/ UpdateReviewCheck(w) \/ UpdateReviewExecute(w) \/ UpdateReviewCommit(w)
    \/ UpdateReviewRefresh(w)
    \/ DeleteReviewCheck(w) \/ DeleteReviewFlush(w) \/ DeleteReviewCommit(w)
    \/ GradeAvg(w) \/ GradeGet(w) \/ GradeFlush(w) \/ GradeCommit(w)

----------------------------------------------------------------------------
(* routers/categories.py, one action per round trip *)

CategoryRequest(op, category_id, name, parent_id) ==
    [op |-> op, category_id |-> category_id, name |-> name,
     parent_id |-> parent_id]

\* result = await db.scalars(stmt); parent = result.first()
CreateCategoryParent(w) ==
    /\ pc[w] = "create_category_parent"
    /\ IF ActiveCategory(categories, req[w].parent_id)
       THEN Goto(w, "create_category_flush")
       ELSE Raise(w, 400, "Parent category not found")
    /\ UNCHANGED loc
    /\ UnchangedTables

\* db.add(db_categry); await db.commit(), first round trip: the flush sends
\* the INSERT, which takes the next id of the sequence
CreateCategoryFlush(w) ==
    /\ pc[w] = "create_category_flush"
    /\ loc' = [loc EXCEPT ![w].new_id = next_category_id]
    /\ next_category_id' = next_category_id + 1
    /\ Goto(w, "create_category_commit")
    /\ UNCHANGED <<products, cart_items, next_cart_id, reviews, next_review_id,
                   categories>>

\* second round trip of await db.commit(): COMMIT, the category becomes
\* visible
CreateCategoryCommit(w) ==
    /\ pc[w] = "create_category_commit"
    /\ categories' = InsertRow(categories, loc[w].new_id,
                               Category(req[w].name, req[w].parent_id))
    /\ loc' = [loc EXCEPT ![w].new_id = 0]
    /\ Goto(w, "create_category_refresh")
    /\ UNCHANGED <<products, cart_items, next_cart_id, reviews, next_review_id,
                   next_category_id>>

\* await db.refresh(db_categry); return db_categry
CreateCategoryRefresh(w) ==
    /\ pc[w] = "create_category_refresh"
    /\ Finish(w, 201)
    /\ UNCHANGED loc
    /\ UnchangedTables

\* result = await db.scalars(stmt); db_category = result.first()
UpdateCategoryGet(w) ==
    /\ pc[w] = "update_category_get"
    /\ IF ~ActiveCategory(categories, req[w].category_id)
       THEN Raise(w, 404, "Category not found")
       ELSE IF req[w].parent_id = None
       THEN Goto(w, "update_category_execute")
       ELSE Goto(w, "update_category_parent")
    /\ UNCHANGED loc
    /\ UnchangedTables

\* result = await db.scalars(parent_stmt); the two checks of the parent
UpdateCategoryParent(w) ==
    /\ pc[w] = "update_category_parent"
    /\ IF ~ActiveCategory(categories, req[w].parent_id)
       THEN Raise(w, 400, "Parent category not found")
       ELSE IF IsOwnParent(req[w].parent_id, req[w].category_id)
       THEN Raise(w, 400, "Category cannot be its own parent")
       ELSE Goto(w, "update_category_execute")
    /\ UNCHANGED loc
    /\ UnchangedTables

\* await db.execute(update(Category).where(id == category_id).values(...))
UpdateCategoryExecute(w) ==
    /\ pc[w] = "update_category_execute"
    /\ ~RowLocked(w, "categories", req[w].category_id)
    /\ loc' = [loc EXCEPT ![w].lock = <<"categories", req[w].category_id>>]
    /\ Goto(w, "update_category_commit")
    /\ UnchangedTables

\* await db.commit()
UpdateCategoryCommit(w) ==
    /\ pc[w] = "update_category_commit"
    /\ categories' = [categories EXCEPT
                         ![req[w].category_id].name = req[w].name,
                         ![req[w].category_id].parent_id = req[w].parent_id]
    /\ loc' = [loc EXCEPT ![w].lock = NoLock]
    /\ Goto(w, "update_category_refresh")
    /\ UNCHANGED <<products, cart_items, next_cart_id, next_category_id,
                   reviews, next_review_id>>

\* await db.refresh(db_category); return db_category
UpdateCategoryRefresh(w) ==
    /\ pc[w] = "update_category_refresh"
    /\ Finish(w, 200)
    /\ UNCHANGED loc
    /\ UnchangedTables

\* result = await db.scalars(select(Category).where(id == category_id))
DeleteCategoryGet(w) ==
    /\ pc[w] = "delete_category_get"
    /\ IF req[w].category_id \notin DOMAIN categories
       THEN Raise(w, 404, "Category not found")
       ELSE IF ~categories[req[w].category_id].is_active
       THEN Raise(w, 400, "Category already marked as inactive")
       ELSE Goto(w, "delete_category_execute")
    /\ UNCHANGED loc
    /\ UnchangedTables

\* await db.execute(update(Category).where(id == ...).values(is_active=False))
DeleteCategoryExecute(w) ==
    /\ pc[w] = "delete_category_execute"
    /\ ~RowLocked(w, "categories", req[w].category_id)
    /\ loc' = [loc EXCEPT ![w].lock = <<"categories", req[w].category_id>>]
    /\ Goto(w, "delete_category_commit")
    /\ UnchangedTables

\* await db.commit(); return {"status": "success", ...}
DeleteCategoryCommit(w) ==
    /\ pc[w] = "delete_category_commit"
    /\ categories' = [categories EXCEPT ![req[w].category_id].is_active = FALSE]
    /\ loc' = [loc EXCEPT ![w].lock = NoLock]
    /\ Finish(w, 200)
    /\ UNCHANGED <<products, cart_items, next_cart_id, next_category_id,
                   reviews, next_review_id>>

CategoryStep(w) ==
    \/ CreateCategoryParent(w) \/ CreateCategoryFlush(w) \/ CreateCategoryCommit(w)
    \/ CreateCategoryRefresh(w)
    \/ UpdateCategoryGet(w) \/ UpdateCategoryParent(w) \/ UpdateCategoryExecute(w)
    \/ UpdateCategoryCommit(w) \/ UpdateCategoryRefresh(w)
    \/ DeleteCategoryGet(w) \/ DeleteCategoryExecute(w) \/ DeleteCategoryCommit(w)

----------------------------------------------------------------------------
(* routers/products.py: get_all_products.  The endpoint only reads; it is  *)
(* applied to catalogues of NumListed products drawn from ProductPool, for *)
(* every query of ListingQueries, one request per catalogue.               *)

NumListed == 3
MaxPage == 2
MaxPageSize == 2

Tsv(ea, eb, ra, rb) ==
    [english |-> [a |-> ea, b |-> eb], russian |-> [a |-> ra, b |-> rb]]

Product(is_active, category_id, price, stock, seller_id, tsv) ==
    [is_active |-> is_active, price |-> price, stock |-> stock,
     category_id |-> category_id, seller_id |-> seller_id, raiting |-> Zero,
     tsv |-> tsv]

ProductPool ==
    {Product(TRUE, 1, 1, 0, 1, Tsv(2, 0, 0, 0)),
     Product(TRUE, 2, 2, 3, 2, Tsv(1, 0, 3, 1)),
     Product(FALSE, 1, 2, 1, 1, Tsv(2, 2, 0, 0))}

SearchTexts ==
    {[given |-> FALSE, text |-> <<>>],
     [given |-> TRUE, text |-> <<>>],
     [given |-> TRUE, text |-> <<" ", " ">>],
     [given |-> TRUE, text |-> <<" ", "a">>],
     [given |-> TRUE, text |-> <<"a", " ", "b">>]}

ListingQueries ==
    [page : 1..MaxPage, page_size : 1..MaxPageSize,
     category_id : {None, 1}, min_price : {None, 2}, max_price : {None, 1},
     in_stock : {"null", "true", "false"}, seller_id : {None, 1},
     search : SearchTexts]

Client == CHOOSE w \in Workers : \A o \in Workers : w <= o

\* a request of queries arrives; the range check comes before every await
get_all_products(queries) ==
    /\ pc[Client] = "idle"
    /\ \E q \in queries :
          /\ req' = [req EXCEPT ![Client] = q]
          /\ IF InvalidPriceRange(q)
             THEN /\ pc' = [pc EXCEPT ![Client] = "done"]
                  /\ res' = [res EXCEPT ![Client] = RangeError(q)]
             ELSE /\ pc' = [pc EXCEPT ![Client] = "list_total"]
                  /\ UNCHANGED res
    /\ UNCHANGED loc
    /\ UnchangedTables

\* total = await db.scalar(total_stmt) or 0
ListTotal ==
    /\ pc[Client] = "list_total"
    /\ loc' = [loc EXCEPT ![Client].total = CountProducts(products, req[Client])]
    /\ Goto(Client, "list_page")
    /\ UnchangedTables

\* await db.execute(products_stmt) or await db.scalars(products_stmt);
\* return {"items": ..., "ranks": ..., "total": ..., ...}
ListPage ==
    /\ pc[Client] = "list_page"
    /\ pc' = [pc EXCEPT ![Client] = "done"]
    /\ res' = [res EXCEPT ![Client] =
                  ProductList(200, SelectPage(products, req[Client]),
                              loc[Client].total, req[Client])]
    /\ loc' = [loc EXCEPT ![Client] = NoLoc]
    /\ UNCHANGED req
    /\ UnchangedTables

InitListing ==
    /\ products \in [1..NumListed -> ProductPool]
    /\ cart_items = {}
    /\ next_cart_id = 1
    /\ reviews = <<>>
    /\ next_review_id = 1
    /\ categories = CategoryRoots
    /\ next_category_id = Len(CategoryRoots) + 1
    /\ added = [pr \in Users \X ProductIds |-> NoAdded]
    /\ InitIdle

NextListing ==
    /\ \/ get_all_products(ListingQueries)
       \/ ListTotal
       \/ ListPage
    /\ NoHistory

SpecListing == InitListing /\ [][NextListing]_vars

(* The listing endpoint under every pairing of the two price bounds *)
PriceRangeQueries ==
    [page : {1}, page_size : 1..MaxPageSize,
     category_id : {None}, min_price : {None, 1, 2}, max_price : {None, 1, 2},
     in_stock : {"null"}, seller_id : {None},
     search : {[given |-> FALSE, text |-> <<>>], [given |-> TRUE, text |-> <<"a">>]}]

NextPriceRange ==
    /\ \/ get_all_products(PriceRangeQueries)
       \/ ListTotal
       \/ ListPage
    /\ NoHistory

SpecPriceRange == InitListing /\ [][NextPriceRange]_vars

----------------------------------------------------------------------------
(* Cart requests of two sessions interleaved at their awaits *)

ConcProductIds == {1, 3}
\* the product whose line set_quantity and remove write
ConcLineProductIds == {1}
ConcAddQuantities == {2}
ConcSetQuantities == {2}

CartRequests ==
    {CartRequest("add", u, p, q) : u \in Users, p \in ConcProductIds,
                                    q \in ConcAddQuantities}
    \cup {CartRequest("set", u, p, q) : u \in Users, p \in ConcLineProductIds,
                                        q \in ConcSetQuantities}
    \cup {CartRequest("remove", u, p, 0) : u \in Users, p \in ConcLineProductIds}
    \cup {CartRequest("clear", u, 0, 0) : u \in Users}

StartCart(w) == Start(w, CartRequests)

NextCartConc ==
    /\ \E w \in Workers : StartCart(w) \/ CartStep(w)
    /\ NoHistory

SpecCartConc == InitCart /\ [][NextCartConc]_vars

----------------------------------------------------------------------------
(* Review requests of two sessions interleaved at their awaits *)

\* buyer 1 reviews and edits, buyer 2 asks to edit the first review, the
\* admin (user 0 of the request) deletes
ReviewRequests ==
    {ReviewRequest("create_review", 1, 1, 0, g) : g \in Grades}
    \cup {ReviewRequest("create_review", 1, p, 0, 3) : p \in RequestProductIds \ ProductIds}
    \cup {ReviewRequest("update_review", 1, 0, i, g) : i \in ReviewIds, g \in {5}}
    \cup {ReviewRequest("update_review", 2, 0, 1, g) : g \in {5}}
    \cup {ReviewRequest("delete_review", 0, 0, i, 0) : i \in ReviewIds}

StartReview(w) == Start(w, ReviewRequests)

NextReview ==
    /\ \E w \in Workers : StartReview(w) \/ ReviewStep(w)
    /\ TrackAlone
    /\ UNCHANGED added

SpecReview == InitCart /\ [][NextReview]_vars

----------------------------------------------------------------------------
(* The review contract *)

\* the stored rating of product p is the mean grade of its active reviews in
\* revs, 0 when it has none
RatingIsMeanOf(prods, revs, p) ==
    LET act == {i \in DOMAIN revs : revs[i].product_id = p /\ revs[i].is_active}
    IN IF act = {}
       THEN prods[p].raiting = Zero
       ELSE /\ prods[p].raiting.den > 0
            /\ prods[p].raiting.num * Cardinality(act)
                  = prods[p].raiting.den * SumGrades(revs, act)

\* w returns from its handler in this step, no other request having been in
\* flight while it was served
ReturnsAlone(w) == pc[w] # "idle" /\ pc'[w] = "idle" /\ alone'[w]

\* C5: when a review operation (create, update, delete) served with no other
\* request in flight completes, the rating of the product it refers to is the
\* mean grade of the product's active reviews, and 0 when it has none.
C5_RatingIsMean ==
    [][\A w \in Workers :
          (ReturnsAlone(w) /\ pc[w] = "grade_commit") =>
              RatingIsMeanOf(products', reviews', loc[w].product_id)]_vars

\* grades [3, 5] were given to product 1, the grade 3 review was soft-deleted
\* by a request served alone, and the rating is 5.0
C5_Witness ==
    /\ DOMAIN reviews = {1, 2}
    /\ reviews[1] = [NewReview(1, 1, 3) EXCEPT !.is_active = FALSE]
    /\ reviews[2] = NewReview(1, 1, 5)
    /\ products[1].raiting = Ratio(5, 1)
    /\ \E w \in Workers :
          /\ pc[w] = "idle" /\ alone[w]
          /\ req[w] = ReviewRequest("delete_review", 0, 0, 1, 0)
          /\ res[w].status = 200

\* C8: a review only ever goes from active to inactive: no step makes an
\* inactive review active, an inactive review is edited no more (no step
\* writes a column of it), update_review and delete_review of an inactive
\* review answer 404 and write nothing, and no step of an update_review
\* request changes an active flag.
C8_InactiveIsFinal ==
    [][/\ \A i \in DOMAIN reviews :
             /\ i \in DOMAIN reviews'
             /\ ~reviews[i].is_active => reviews'[i] = reviews[i]
       /\ \A w \in Workers :
             ( /\ pc[w] \in {"update_review_check", "delete_review_check"}
               /\ Steps(w)
               /\ req[w].review_id \in DOMAIN reviews
               /\ ~reviews[req[w].review_id].is_active ) =>
                 /\ pc'[w] = "idle"
                 /\ res'[w] = Response(404, "Review not found")
                 /\ reviews' = reviews
                 /\ products' = products
       /\ \A w \in Workers :
             (Serving(w, "update_review") /\ Steps(w)) =>
                 \A i \in DOMAIN reviews :
                     reviews'[i].is_active = reviews[i].is_active]_vars

\* w is at the first await of an update_review of a review that exists and
\* whose author is another buyer, and takes its step
NotTheAuthorAsks(w) ==
    /\ pc[w] = "update_review_check"
    /\ Steps(w)
    /\ req[w].review_id \in DOMAIN reviews
    /\ reviews[req[w].review_id].user_id # req[w].user_id

\* C19 as stated: update_review by a buyer who is not the author of the
\* review answers 403 and writes nothing.
C19_NotTheAuthorGets403 ==
    [][\A w \in Workers :
          NotTheAuthorAsks(w) =>
              /\ pc'[w] = "idle"
              /\ res'[w] = Response(403, "You can only update your own reviews")
              /\ reviews' = reviews
              /\ products' = products]_vars

\* C19, amended: update_review by a buyer who is not the author of the
\* review is refused in its first step and writes nothing (the review and
\* the rating of its product stay as they are): with 403 when the review
\* and its product are active, with 404 when either has been soft-deleted;
\* and a grade is only ever changed by a request of the author.
C19_OnlyTheAuthorEdits ==
    [][/\ \A w \in Workers :
             NotTheAuthorAsks(w) =>
                 /\ pc'[w] = "idle"
                 /\ res'[w] =
                       IF check_review_id(products, reviews, req[w].review_id)
                       THEN Response(403, "You can only update your own reviews")
                       ELSE Response(404, "Review not found")
                 /\ reviews' = reviews
                 /\ products' = products
       /\ \A i \in DOMAIN reviews :
             reviews'[i].grade # reviews[i].grade =>
                 \E w \in Workers :
                     /\ Serving(w, "update_review") /\ Steps(w)
                     /\ req[w].review_id = i
                     /\ req[w].user_id = reviews[i].user_id]_vars

\* buyer 2 asked to edit the review of buyer 1, was answered 403, and the
\* review has the grade and the product the rating they had
C19_Witness ==
    \E w \in Workers :
        /\ pc[w] = "idle"
        /\ req[w] = ReviewRequest("update_review", 2, 0, 1, 5)
        /\ res[w] = Response(403, "You can only update your own reviews")
        /\ DOMAIN reviews = {1}
        /\ reviews[1] = NewReview(1, 1, 3)
        /\ products[1].raiting = Ratio(3, 1)

ReviewsOf(revs, p) == {<<i, revs[i]>> : i \in {j \in DOMAIN revs : revs[j].product_id = p}}

\* C6: the rating is recomputed in the unit of work of the review mutation:
\* the commit that makes a created, edited or soft-deleted review visible
\* also carries the product's recomputed rating.
C6_RecomputedWithMutation ==
    [][\A p \in ProductIds :
          ReviewsOf(reviews', p) # ReviewsOf(reviews, p) =>
              RatingIsMeanOf(products', reviews', p)]_vars

\* C7: once the review mutations of both sessions are completed, every
\* product's stored rating is the mean grade of its active reviews.
C7_NoStaleRating ==
    (\A w \in Workers : pc[w] = "idle") =>
        \A p \in ProductIds : RatingIsMeanOf(products, reviews, p)

----------------------------------------------------------------------------
(* Category requests of two sessions interleaved at their awaits.  The     *)
(* table starts with the two roots; NewCategoryId is the id of the first   *)
(* row a request creates.                                                  *)

NewCategoryId == Len(CategoryRoots) + 1

CategoryRequests ==
    {CategoryRequest("create_category", 0, "aaa", p) : p \in {None, 1, NewCategoryId}}
    \cup {CategoryRequest("update_category", c, "bbb", p) :
             c \in {1, NewCategoryId}, p \in {None, 1, NewCategoryId}}
    \cup {CategoryRequest("delete_category", c, "", None) : c \in {1, NewCategoryId}}

StartCategory(w) == Start(w, CategoryRequests)

NextCategory ==
    /\ \E w \in Workers : StartCategory(w) \/ CategoryStep(w)
    /\ NoHistory

SpecCategory == InitCart /\ [][NextCategory]_vars

\* C18: no category is its own parent in any state reached through
\* create_category, update_category and delete_category: no step of an
\* update_category request that names the category as its own parent writes
\* the table, the request ends answered 400 (404 when the category is missing
\* or inactive) and with "Category cannot be its own parent" when the parent
\* lookup finds the category itself; and the row create_category inserts has
\* a parent other than itself.
C18_NoSelfParent ==
    /\ [](\A c \in DOMAIN categories : categories[c].parent_id # c)
    /\ [][\A w \in Workers :
            ( /\ Serving(w, "update_category")
              /\ req[w].parent_id = req[w].category_id
              /\ Steps(w) ) =>
                /\ categories' = categories
                /\ pc'[w] \in {"update_category_parent", "idle"}
                /\ pc'[w] = "idle" => res'[w].status \in {400, 404}
                /\ ( /\ pc[w] = "update_category_parent"
                     /\ req[w].category_id \in DOMAIN categories
                     /\ categories[req[w].category_id].is_active ) =>
                       res'[w] = Response(400, "Category cannot be its own parent")]_vars
    /\ [][\A w \in Workers :
            (pc[w] = "create_category_commit" /\ Steps(w)) =>
                \E c \in DOMAIN categories' :
                    /\ DOMAIN categories' \ DOMAIN categories = {c}
                    /\ categories'[c].parent_id # c]_vars

\* category 3 was created under category 1, then given the parent None by an
\* update, and the request to make it its own parent was answered 400
C18_Witness ==
    \E w \in Workers :
        /\ pc[w] = "idle"
        /\ req[w] = CategoryRequest("update_category", NewCategoryId, "bbb",
                                    NewCategoryId)
        /\ res[w] = Response(400, "Category cannot be its own parent")
        /\ NewCategoryId \in DOMAIN categories
        /\ categories[NewCategoryId].is_active
        /\ categories[NewCategoryId].name = "bbb"
        /\ categories[NewCategoryId].parent_id = None

----------------------------------------------------------------------------
(* Products and categories created, updated and soft-deleted by the        *)
(* requests of two sessions interleaved at their awaits.                   *)

LifecycleRequests ==
    {ProductRequest("create_product", 1, 0, 7, 0, 1)}
    \cup {ProductRequest("update_product", u, 1, 7, 0, c) :
             u \in Users, c \in {1, NewCategoryId}}
    \cup {ProductRequest("delete_product", u, 1, 0, 0, 0) : u \in Users}
    \cup {CategoryRequest("update_category", 1, "bbb", None),
          CategoryRequest("delete_category", 1, "", None)}

StartLifecycle(w) == Start(w, LifecycleRequests)

NextLifecycle ==
    /\ \E w \in Workers :
          \/ StartLifecycle(w)
          \/ ProductStep(w)
          \/ DeleteProductStep(w)
          \/ UpdateCategoryGet(w) \/ UpdateCategoryExecute(w)
          \/ UpdateCategoryCommit(w) \/ UpdateCategoryRefresh(w)
          \/ DeleteCategoryGet(w) \/ DeleteCategoryExecute(w)
          \/ DeleteCategoryCommit(w)
    /\ NoHistory

SpecLifecycle == InitCart /\ [][NextLifecycle]_vars

\* C21: a product or a category that is inactive stays inactive: no step sets
\* an active flag back to true or removes a row; update_product of an
\* inactive product and update_category of an inactive category are answered
\* 404 and write nothing, and no step of theirs changes an active flag;
\* delete_category of an inactive category is answered 400 and writes nothing.
C21_SoftDeleteIsFinal ==
    [][/\ \A p \in DOMAIN products :
             /\ p \in DOMAIN products'
             /\ ~products[p].is_active => ~products'[p].is_active
       /\ \A c \in DOMAIN categories :
             /\ c \in DOMAIN categories'
             /\ ~categories[c].is_active => ~categories'[c].is_active
       /\ \A w \in Workers :
             /\ ( /\ pc[w] = "update_product_check" /\ Steps(w)
                  /\ req[w].product_id \in DOMAIN products
                  /\ ~products[req[w].product_id].is_active ) =>
                    /\ pc'[w] = "idle"
                    /\ res'[w] = Response(404, "Product not found or inactive")
                    /\ products' = products
             /\ ( /\ pc[w] = "update_category_get" /\ Steps(w)
                  /\ req[w].category_id \in DOMAIN categories
                  /\ ~categories[req[w].category_id].is_active ) =>
                    /\ pc'[w] = "idle"
                    /\ res'[w] = Response(404, "Category not found")
                    /\ categories' = categories
             /\ ( /\ pc[w] = "delete_category_get" /\ Steps(w)
                  /\ req[w].category_id \in DOMAIN categories
                  /\ ~categories[req[w].category_id].is_active ) =>
                    /\ pc'[w] = "idle"
                    /\ res'[w] = Response(400, "Category already marked as inactive")
                    /\ categories' = categories
             /\ ( /\ Serving(w, "update_product") \/ Serving(w, "update_category")
                  /\ Steps(w) ) =>
                    /\ \A p \in DOMAIN products :
                           products'[p].is_active = products[p].is_active
                    /\ \A c \in DOMAIN categories :
                           categories'[c].is_active = categories[c].is_active]_vars

\* product 1 was updated and then soft-deleted and category 1 renamed and
\* then soft-deleted; the next update of the product was answered 404 and
\* the next delete of the category 400
C21_Witness ==
    \E v \in Workers, w \in Workers :
        /\ pc[v] = "idle" /\ pc[w] = "idle"
        /\ req[v] = ProductRequest("update_product", 1, 1, 7, 0, 1)
        /\ res[v] = Response(404, "Product not found or inactive")
        /\ req[w] = CategoryRequest("delete_category", 1, "", None)
        /\ res[w] = Response(400, "Category already marked as inactive")
        /\ ~products[1].is_active /\ products[1].price = 7
        /\ ~categories[1].is_active /\ categories[1].name = "bbb"

----------------------------------------------------------------------------
(* Two add requests of user 1 for product 1 in flight together, the pair   *)
(* having no line (q = 0) or a line of quantity q.  Here `added` keeps     *)
(* what the line held before the two requests started.                     *)

RaceLine == <<1, 1>>
RaceUser == RaceLine[1]
RaceProduct == RaceLine[2]

InitAddRace ==
    \E q \in 0..MaxQty, a \in AddQuantities, b \in AddQuantities :
        /\ q + a + b <= MaxQty
        /\ products = Catalogue
        /\ reviews = <<>>
        /\ next_review_id = 1
        /\ categories = CategoryRoots
        /\ next_category_id = Len(CategoryRoots) + 1
        /\ cart_items = IF q = 0 THEN {}
                        ELSE InsertCartItem({}, 1, RaceUser, RaceProduct, q)
        /\ next_cart_id = IF q = 0 THEN 1 ELSE 2
        /\ added = [pr \in Users \X ProductIds |->
                       IF pr = <<RaceUser, RaceProduct>>
                       THEN [sum |-> q, pure |-> TRUE] ELSE NoAdded]
        /\ pc = [w \in Workers |-> "add_check"]
        /\ req = [w \in Workers |->
                     CartRequest("add", RaceUser, RaceProduct, IF w = 1 THEN a ELSE b)]
        /\ loc = [w \in Workers |-> NoLoc]
        /\ res = [w \in Workers |-> NoRes]
        /\ alone = [w \in Workers |-> FALSE]

NextAddRace ==
    /\ \E w \in Workers : AddStep(w)
    /\ NoHistory

SpecAddRace == InitAddRace /\ [][NextAddRace]_vars

BothAddsDone == \A w \in Workers : pc[w] = "idle" /\ res[w].status # 0

LineBeforeRace == added[<<RaceUser, RaceProduct>>].sum

\* C3: two adds racing on a pair that has no line: one inserts, the other
\* falls back to incrementing; both succeed and the one line holds a + b.
C3_RacingInsertsMerge ==
    (BothAddsDone /\ LineBeforeRace = 0) =>
        /\ \A w \in Workers : res[w].status = 201
        /\ Cardinality(MatchingCartItems(cart_items, RaceUser, RaceProduct)) = 1
        /\ get_cart_item(cart_items, RaceUser, RaceProduct).quantity
              = req[1].quantity + req[2].quantity

\* C4: two adds of a and b in flight on a line of quantity q: whatever the
\* interleaving of their reads and commits, the line ends at q + a + b.
C4_NoLostUpdate ==
    (BothAddsDone /\ LineBeforeRace > 0) =>
        get_cart_item(cart_items, RaceUser, RaceProduct).quantity
            = LineBeforeRace + req[1].quantity + req[2].quantity

----------------------------------------------------------------------------
(* Cart requests of two sessions, from the empty cart, with the history of *)
(* what add has merged.                                                    *)

AddingRequests ==
    {CartRequest("add", 1, 1, q) : q \in AddQuantities}
    \cup {CartRequest("set", 1, 1, 1),
          CartRequest("remove", 1, 1, 0),
          CartRequest("clear", 1, 0, 0)}

StartAdding(w) == Start(w, AddingRequests)

NextCart ==
    /\ \E w \in Workers : StartAdding(w) \/ CartStep(w)
    /\ TrackHistory

SpecCart == InitCart /\ [][NextCart]_vars

\* C2: after add requests of a pair served one after another, and nothing
\* else written to its line since the pair last had no line, the pair has
\* exactly one cart line and its quantity is the sum of the added quantities.
C2_AddsSumUp ==
    \A pr \in DOMAIN added :
        (added[pr].pure /\ added[pr].sum > 0) =>
            /\ Cardinality(MatchingCartItems(cart_items, pr[1], pr[2])) = 1
            /\ get_cart_item(cart_items, pr[1], pr[2]).quantity = added[pr].sum

\* add of 2, then add of 3, served one after another, were merged into one
\* line of quantity 5
C2_Witness ==
    /\ added[<<1, 1>>] = [sum |-> 5, pure |-> TRUE]
    /\ MatchingCartItems(cart_items, 1, 1) = {[id |-> 1, user_id |-> 1,
                                               product_id |-> 1, quantity |-> 5]}
    /\ \E v \in Workers, w \in Workers :
          /\ pc[v] = "idle" /\ pc[w] = "idle" /\ alone[w]
          /\ req[v] = CartRequest("add", 1, 1, 2) /\ res[v].status = 201
          /\ req[w] = CartRequest("add", 1, 1, 3) /\ res[w].status = 201

----------------------------------------------------------------------------
(* The cart contract, handler by handler.  The models start from the carts *)
(* of StockedCarts with product 1 active or soft-deleted.                  *)

Line(id, user_id, product_id, quantity) ==
    [id |-> id, user_id |-> user_id, product_id |-> product_id,
     quantity |-> quantity]

StockedCarts ==
    {{},
     {Line(1, 1, 1, 3)},
     {Line(1, 1, 2, 1), Line(2, 1, 1, 3)},
     {Line(1, 1, 1, 3), Line(2, 2, 1, 2)}}

StockedCatalogues == {Catalogue, [Catalogue EXCEPT ![1].is_active = FALSE]}

InitStocked ==
    /\ products \in StockedCatalogues
    /\ cart_items \in StockedCarts
    /\ next_cart_id = Cardinality(cart_items) + 1
    /\ reviews = <<>>
    /\ next_review_id = 1
    /\ categories = CategoryRoots
    /\ next_category_id = Len(CategoryRoots) + 1
    /\ added = [pr \in Users \X ProductIds |->
                   IF MatchingCartItems(cart_items, pr[1], pr[2]) = {}
                   THEN NoAdded ELSE NotOnlyAdded]
    /\ InitIdle

ProductMissingOrInactive(p) == p \notin DOMAIN products \/ ~products[p].is_active

LinesOf(u, p) == {r \in cart_items : r.user_id = u /\ r.product_id = p}

CartOf(u) == {line \in cart_items : line.user_id = u}

\* the lines of a request's (user, product)
Mine(w) == LinesOf(req[w].user_id, req[w].product_id)

\* the step leaves every line other than those of `lines` as it is and
\* inserts none
OnlyTouches(lines) ==
    /\ \A line \in cart_items \ lines : line \in cart_items'
    /\ \A line \in cart_items' : \E old \in cart_items : old.id = line.id
    /\ next_cart_id' = next_cart_id

AddingRequestsOfStocked ==
    {CartRequest("add", 1, 1, 1), CartRequest("add", 1, 3, 1),
     CartRequest("add", 2, 2, 1)}
    \cup {ProductRequest("delete_product", 1, 1, 0, 0, 0)}

StartAddOrDelete(w) == Start(w, AddingRequestsOfStocked)

NextAdd ==
    /\ \E w \in Workers :
          \/ StartAddOrDelete(w)
          \/ AddStep(w)
          \/ DeleteProductStep(w)
    /\ TrackAlone
    /\ UNCHANGED added

SpecAdd == InitStocked /\ [][NextAdd]_vars

\* C12: add for a product that does not exist or is inactive answers 404
\* (product not found) at its first await and inserts or modifies no cart
\* line, also when the user holds a line for the product.
C12_AddRejectsInactive ==
    [][\A w \in Workers :
          ( /\ pc[w] = "add_check" /\ Steps(w)
            /\ ProductMissingOrInactive(req[w].product_id) ) =>
              /\ pc'[w] = "idle"
              /\ res'[w] = Response(404, "Product not found or inactive")
              /\ cart_items' = cart_items
              /\ next_cart_id' = next_cart_id]_vars

\* user 1 holds a line of quantity 3 for product 1, which is inactive, and
\* the add to it was answered 404; so was an add for product 3, which does
\* not exist
C12_Witness ==
    \E v \in Workers, w \in Workers :
        /\ pc[v] = "idle" /\ pc[w] = "idle"
        /\ req[v] = CartRequest("add", 1, 1, 1)
        /\ res[v] = Response(404, "Product not found or inactive")
        /\ req[w] = CartRequest("add", 1, 3, 1)
        /\ res[w] = Response(404, "Product not found or inactive")
        /\ ~products[1].is_active
        /\ LinesOf(1, 1) = {Line(1, 1, 1, 3)}

SettingRequests ==
    {CartRequest("set", 1, 1, q) : q \in {1, 3}}
    \cup {CartRequest("set", 1, 3, 1), CartRequest("set", 2, 2, 1),
          CartRequest("remove", 1, 1, 0)}

StartSetOrRemove(w) == Start(w, SettingRequests)

NextSet ==
    /\ \E w \in Workers :
          \/ StartSetOrRemove(w)
          \/ SetStep(w)
          \/ RemoveStep(w)
    /\ TrackAlone
    /\ UNCHANGED added

SpecSet == InitStocked /\ [][NextSet]_vars

\* C13: set_quantity answers 404 (product not found) for a missing or
\* inactive product and 404 (cart item not found) when the user holds no line
\* for the product, the cart lines unchanged in both cases; no step of it
\* writes a line other than that of (user, product); and served with no
\* other request in flight it gives that one line exactly the requested
\* quantity (it does not add to it) and answers 200.
C13_SetQuantityOverwrites ==
    [][\A w \in Workers :
          /\ ( /\ pc[w] = "set_check" /\ Steps(w)
               /\ ProductMissingOrInactive(req[w].product_id) ) =>
                 /\ pc'[w] = "idle"
                 /\ res'[w] = Response(404, "Product not found or inactive")
                 /\ cart_items' = cart_items
          /\ (pc[w] = "set_get" /\ Steps(w) /\ Mine(w) = {}) =>
                 /\ pc'[w] = "idle"
                 /\ res'[w] = Response(404, "Cart item not found")
                 /\ cart_items' = cart_items
          /\ (Serving(w, "set") /\ Steps(w)) => OnlyTouches(Mine(w))
          /\ (pc[w] = "set_commit" /\ Steps(w) /\ alone[w]) =>
                 /\ Cardinality(Mine(w)) = 1
                 /\ cart_items' = (cart_items \ Mine(w))
                       \cup {[line EXCEPT !.quantity = req[w].quantity] :
                                line \in Mine(w)}
                 /\ pc'[w] = "set_reread"
          /\ (pc[w] = "set_reread" /\ Steps(w) /\ alone[w]) =>
                 /\ pc'[w] = "set_reread_product"
                 /\ cart_items' = cart_items
          /\ (pc[w] = "set_reread_product" /\ Steps(w) /\ alone[w]) =>
                 /\ res'[w] = Response(200, "")
                 /\ cart_items' = cart_items]_vars

\* user 1 held lines of quantity 1 and 3 for products 2 and 1 and set the
\* second to 1, served alone; the set of user 2, who holds no line, was
\* answered 404
C13_Witness ==
    \E v \in Workers, w \in Workers :
        /\ pc[v] = "idle" /\ pc[w] = "idle"
        /\ req[v] = CartRequest("set", 1, 1, 1)
        /\ res[v] = Response(200, "") /\ alone[v]
        /\ cart_items = {Line(1, 1, 2, 1), Line(2, 1, 1, 1)}
        /\ req[w] = CartRequest("set", 2, 2, 1)
        /\ res[w] = Response(404, "Cart item not found")

RemovingRequests ==
    {CartRequest("remove", 1, 1, 0), CartRequest("remove", 2, 1, 0),
     CartRequest("remove", 1, 3, 0)}

StartRemove(w) == Start(w, RemovingRequests)

NextRemove ==
    /\ \E w \in Workers : StartRemove(w) \/ RemoveStep(w)
    /\ TrackAlone
    /\ UNCHANGED added

SpecRemove == InitStocked /\ [][NextRemove]_vars

\* C14: remove answers 404 (cart item not found) and changes nothing when the
\* user holds no line for the product; no step of it writes a line other than
\* that of (user, product); and served with no other request in flight it
\* deletes that one line and answers 204, whether or not the product is
\* active.
C14_RemoveDeletesOneLine ==
    [][\A w \in Workers :
          /\ (pc[w] = "remove_get" /\ Steps(w) /\ Mine(w) = {}) =>
                 /\ pc'[w] = "idle"
                 /\ res'[w] = Response(404, "Cart item not found")
                 /\ cart_items' = cart_items
          /\ (pc[w] = "remove_get" /\ Steps(w) /\ Mine(w) # {}) =>
                 pc'[w] = "remove_get_product"
          /\ (Serving(w, "remove") /\ Steps(w)) => OnlyTouches(Mine(w))
          /\ (pc[w] = "remove_commit" /\ Steps(w) /\ alone[w]) =>
                 /\ Cardinality(Mine(w)) = 1
                 /\ cart_items' = cart_items \ Mine(w)
                 /\ res'[w] = Response(204, "")]_vars

\* both users held a line for product 1, which is inactive; user 1 removed
\* theirs, served alone, and the line of user 2 is as it was
C14_Witness ==
    \E w \in Workers :
        /\ pc[w] = "idle" /\ alone[w]
        /\ req[w] = CartRequest("remove", 1, 1, 0)
        /\ res[w] = Response(204, "")
        /\ ~products[1].is_active
        /\ cart_items = {Line(2, 2, 1, 2)}

ClearingRequests ==
    {CartRequest("clear", 1, 0, 0), CartRequest("clear", 2, 0, 0),
     CartRequest("add", 1, 2, 1)}

StartClearOrAdd(w) == Start(w, ClearingRequests)

NextClear ==
    /\ \E w \in Workers :
          \/ StartClearOrAdd(w)
          \/ ClearExecute(w) \/ ClearCommit(w)
          \/ AddStep(w)
    /\ TrackAlone
    /\ UNCHANGED added

SpecClear == InitStocked /\ [][NextClear]_vars

\* C15: clear has no failure: it always answers 204; no step of it writes a
\* line of another user; served with no other request in flight it leaves
\* the user with no line, and on a cart with no line of the user (as after a
\* first clear) it leaves the table as it is.
C15_ClearIsIdempotent ==
    [][\A w \in Workers :
          /\ (pc[w] = "clear_execute" /\ Steps(w)) =>
                 pc'[w] = "clear_commit" /\ cart_items' = cart_items
          /\ (pc[w] = "clear_commit" /\ Steps(w)) =>
                 pc'[w] = "idle" /\ res'[w] = Response(204, "")
          /\ (Serving(w, "clear") /\ Steps(w)) =>
                 OnlyTouches(CartOf(req[w].user_id))
          /\ (pc[w] = "clear_commit" /\ Steps(w) /\ alone[w]) =>
                 /\ cart_items' = {line \in cart_items :
                                      line.user_id # req[w].user_id}
                 /\ CartOf(req[w].user_id) = {} => cart_items' = cart_items]_vars

\* user 1 cleared a cart of one line while user 2 held a line, and cleared
\* again: both requests, served alone, were answered 204, user 1 has no line
\* and the line of user 2 is as it was
C15_Witness ==
    /\ \A w \in Workers :
          /\ pc[w] = "idle" /\ alone[w]
          /\ req[w] = CartRequest("clear", 1, 0, 0)
          /\ res[w] = Response(204, "")
    /\ cart_items = {Line(2, 2, 1, 2)}

----------------------------------------------------------------------------
(* Carts viewed while product 1, reviewed with grade 5 and rated 5.0, is   *)
(* given another price and soft-deleted and a line is removed.             *)

ViewingRequests ==
    {CartRequest("view", u, 0, 0) : u \in Users}
    \cup {ProductRequest("delete_product", u, 1, 0, 0, 0) : u \in Users}
    \cup {ProductRequest("update_product", 1, 1, 7, 0, 1)}
    \cup {CartRequest("remove", 1, 1, 0)}

StartViewOrDelete(w) == Start(w, ViewingRequests)

InitSoftDelete ==
    /\ products = [Catalogue EXCEPT ![1].raiting = Ratio(5, 1)]
    /\ cart_items \in StockedCarts
    /\ next_cart_id = Cardinality(cart_items) + 1
    /\ reviews = <<NewReview(2, 1, 5)>>
    /\ next_review_id = 2
    /\ categories = CategoryRoots
    /\ next_category_id = Len(CategoryRoots) + 1
    /\ added = [pr \in Users \X ProductIds |->
                   IF MatchingCartItems(cart_items, pr[1], pr[2]) = {}
                   THEN NoAdded ELSE NotOnlyAdded]
    /\ InitIdle

NextSoftDelete ==
    /\ \E w \in Workers :
          \/ StartViewOrDelete(w)
          \/ ViewStep(w)
          \/ DeleteProductStep(w)
          \/ UpdateProductStep(w)
          \/ RemoveStep(w)
    /\ TrackAlone
    /\ UNCHANGED added

SpecSoftDelete == InitSoftDelete /\ [][NextSoftDelete]_vars

RECURSIVE TotalOver(_, _)
\* the sum of value[line] over the lines of a set
TotalOver(lines, value) ==
    IF lines = {} THEN 0
    ELSE LET line == CHOOSE x \in lines : TRUE
         IN value[line] + TotalOver(lines \ {line}, value)

UnitPrice(p) == IF products[p].price = None THEN 0 ELSE products[p].price

Range(seq) == {seq[i] : i \in DOMAIN seq}

\* w returns from get_cart in this step
ViewReturns(w) == Serving(w, "view") /\ Steps(w) /\ pc'[w] = "idle"

\* C16: view writes nothing; it answers 200 with lines in ascending id, each
\* once, total_quantity the sum of their quantities and total_price the sum
\* of quantity times the product's current price (a missing price counted as
\* 0); served with no other request in flight, the lines are exactly the
\* cart lines of the user as they are now.
C16_ViewListsTheCart ==
    [][\A w \in Workers :
          /\ (Serving(w, "view") /\ Steps(w)) =>
                 /\ cart_items' = cart_items /\ next_cart_id' = next_cart_id
                 /\ products' = products /\ reviews' = reviews
                 /\ categories' = categories
          /\ ViewReturns(w) =>
                 LET v == res'[w] IN
                 /\ v.status = 200
                 /\ v.user_id = req[w].user_id
                 /\ \A i \in DOMAIN v.items, j \in DOMAIN v.items :
                        i < j => v.items[i].id < v.items[j].id
                 /\ v.total_quantity
                        = TotalOver(Range(v.items),
                                    [line \in Range(v.items) |-> line.quantity])
                 /\ v.total_price
                        = TotalOver(Range(v.items),
                                    [line \in Range(v.items) |->
                                         line.quantity * UnitPrice(line.product_id)])
                 /\ alone'[w] => Range(v.items) = CartOf(req[w].user_id)]_vars

\* user 1, who holds two lines, the older one for product 2, of quantities 1
\* and 3, viewed the cart with no other request in flight, after the price
\* of product 1 was changed from 15 to 7
C16_Witness ==
    \E v \in Workers, w \in Workers :
        /\ pc[v] = "idle"
        /\ req[v] = ProductRequest("update_product", 1, 1, 7, 0, 1)
        /\ res[v] = Response(200, "")
        /\ products[1].price = 7 /\ products[2].price = 25
        /\ pc[w] = "idle" /\ alone[w]
        /\ req[w] = CartRequest("view", 1, 0, 0)
        /\ cart_items = {Line(1, 1, 2, 1), Line(2, 1, 1, 3)}
        /\ res[w].items = <<Line(1, 1, 2, 1), Line(2, 1, 1, 3)>>
        /\ res[w].total_quantity = 4
        /\ res[w].total_price = 1 * 25 + 3 * 7

\* C20: no step of delete_product writes anything but the active flag of its
\* product: the cart lines, the reviews, the other products and the product's
\* other columns, its rating among them, stay as they are; and a view served
\* with no other request in flight answers with the lines of inactive
\* products too, counted in total_quantity and total_price.
C20_SoftDeleteKeepsCartAndReviews ==
    [][\A w \in Workers :
          /\ (Serving(w, "delete_product") /\ Steps(w)) =>
                 /\ cart_items' = cart_items
                 /\ reviews' = reviews
                 /\ DOMAIN products' = DOMAIN products
                 /\ \A o \in DOMAIN products :
                        /\ o # req[w].product_id => products'[o] = products[o]
                        /\ [products'[o] EXCEPT !.is_active = FALSE]
                               = [products[o] EXCEPT !.is_active = FALSE]
          /\ (pc[w] = "delete_product_commit" /\ Steps(w)) =>
                 ~products'[req[w].product_id].is_active
          /\ (ViewReturns(w) /\ alone'[w]) =>
                 LET mine == CartOf(req[w].user_id) IN
                 /\ \A line \in mine :
                        ~products[line.product_id].is_active =>
                            line \in Range(res'[w].items)
                 /\ res'[w].total_quantity
                        = TotalOver(mine, [line \in mine |-> line.quantity])
                 /\ res'[w].total_price
                        = TotalOver(mine, [line \in mine |->
                              line.quantity * products[line.product_id].price])]_vars

\* product 1 was soft-deleted by its seller while user 1 held a line of
\* quantity 3 for it; its review and its rating 5.0 are as they were, and the
\* view that started after the delete has read the line
C20_Witness ==
    \E v \in Workers, w \in Workers :
        /\ pc[v] = "idle"
        /\ req[v] = ProductRequest("delete_product", 1, 1, 0, 0, 0)
        /\ res[v] = Response(200, "")
        /\ ~products[1].is_active
        /\ products[1].raiting = Ratio(5, 1)
        /\ reviews = <<NewReview(2, 1, 5)>>
        /\ pc[w] = "view_products" /\ alone[w]
        /\ req[w] = CartRequest("view", 1, 0, 0)
        /\ loc[w].items = <<Line(1, 1, 2, 1), Line(2, 1, 1, 3)>>

----------------------------------------------------------------------------
\* C1: in every state, also between the steps of interleaved cart requests,
\* a (user, product) pair has at most one cart_items row.
C1_OneLinePerPair ==
    \A u \in Users, p \in RequestProductIds :
        Cardinality(MatchingCartItems(cart_items, u, p)) <= 1

\* a second add of the pair is about to send its INSERT, having seen no
\* line, while the line another session inserted meanwhile is in the table
C1_Witness ==
    \E w \in Workers :
        /\ pc[w] = "add_flush"
        /\ loc[w].cart_item = NoRow
        /\ MatchingCartItems(cart_items, req[w].user_id, req[w].product_id) # {}

----------------------------------------------------------------------------
(* The listing contract, stated from the request and the catalogue alone. *)

ListingAnswered == pc[Client] = "done" /\ res[Client].status = 200

\* the search text has something other than whitespace in it
HasSearchText(q) ==
    q.search.given /\ \E i \in DOMAIN q.search.text : q.search.text[i] # " "

WordsOf(q) == {w \in Words : \E i \in DOMAIN q.search.text : q.search.text[i] = w}

MatchesSearch(product, q) ==
    \E language \in Languages : \A w \in WordsOf(q) : product.tsv[language][w] > 0

Satisfies(product, q) ==
    /\ product.is_active
    /\ q.category_id # None => product.category_id = q.category_id
    /\ q.min_price # None => product.price >= q.min_price
    /\ q.max_price # None => product.price <= q.max_price
    /\ q.in_stock = "true" => product.stock > 0
    /\ q.in_stock = "false" => product.stock = 0
    /\ q.seller_id # None => product.seller_id = q.seller_id
    /\ HasSearchText(q) => MatchesSearch(product, q)

MatchingProducts(q) == {id \in DOMAIN products : Satisfies(products[id], q)}

RECURSIVE Score(_, _)
Score(weights, ws) ==
    IF ws = {} THEN 0
    ELSE LET w == CHOOSE x \in ws : TRUE IN weights[w] + Score(weights, ws \ {w})

Relevance(product, q) ==
    LET satisfied == {l \in Languages : \A w \in WordsOf(q) : product.tsv[l][w] > 0}
    IN IF ~HasSearchText(q) \/ satisfied = {} THEN 0
       ELSE CHOOSE s \in {Score(product.tsv[l], WordsOf(q)) : l \in satisfied} :
                \A l \in satisfied : s >= Score(product.tsv[l], WordsOf(q))

\* x comes before y in the order of the listing
Precedes(x, y, q) ==
    IF q.search.given
    THEN \/ Relevance(products[x], q) > Relevance(products[y], q)
         \/ Relevance(products[x], q) = Relevance(products[y], q) /\ x < y
    ELSE x < y

PageOf(q, page) == GetAllProducts(products, [q EXCEPT !.page = page])


\* C9: the total of an answered listing request is the number of active
\* products that satisfy every supplied filter (stock > 0 for in_stock=true,
\* stock = 0 for in_stock=false, the search match when the text is non-empty
\* after trimming), it is the count of the page query's own predicate set, and
\* the same request with any other page and page_size reports the same total.
C9_TotalCountsMatches ==
    ListingAnswered =>
        LET q == req[Client]
        IN /\ res[Client].total = Cardinality(MatchingProducts(q))
           /\ res[Client].total = Cardinality(Where(products, Filters(q), q))
           /\ \A page \in 1..MaxPage, page_size \in 1..MaxPageSize :
                  GetAllProducts(products, [q EXCEPT !.page = page,
                                                     !.page_size = page_size]).total
                      = res[Client].total

\* a search asked for on the second page, with the stock filter, that keeps
\* one of two active products and leaves out an inactive product it matches
C9_Witness ==
    /\ ListingAnswered
    /\ HasSearchText(req[Client])
    /\ req[Client].page = 2
    /\ req[Client].seller_id = None
    /\ req[Client].in_stock = "true"
    /\ res[Client].total = 1
    /\ Cardinality({id \in DOMAIN products : products[id].is_active}) = 2
    /\ \E id \in DOMAIN products :
           products[id].is_active /\ ~MatchesSearch(products[id], req[Client])
    /\ \E id \in DOMAIN products :
           ~products[id].is_active /\ MatchesSearch(products[id], req[Client])

\* C10: the items of an answered listing request are the matching active
\* products at positions offset+1 .. offset+page_size of the order (descending
\* relevance then ascending id when a search text is given, ascending id
\* otherwise), offset = (page-1)*page_size; their number is
\* min(page_size, max(0, total - offset)); the pages of the request are
\* pairwise disjoint and together hold every matching product.
C10_PageIsSlice ==
    ListingAnswered =>
        LET q == req[Client]
            items == res[Client].items
            offset == (q.page - 1) * q.page_size
            remaining == IF res[Client].total - offset > 0
                         THEN res[Client].total - offset ELSE 0
            pages == 1..(Cardinality(MatchingProducts(q)) + 1)
        IN /\ Len(items) = IF q.page_size <= remaining THEN q.page_size ELSE remaining
           /\ \A k \in DOMAIN items :
                  /\ items[k] \in MatchingProducts(q)
                  /\ Cardinality({x \in MatchingProducts(q) : Precedes(x, items[k], q)})
                         = offset + k - 1
           /\ \A a \in pages, b \in pages :
                  a # b => Range(PageOf(q, a).items) \cap Range(PageOf(q, b).items) = {}
           /\ UNION {Range(PageOf(q, a).items) : a \in pages} = MatchingProducts(q)

\* the second page of a search whose three matches tie on relevance in part
C10_Witness ==
    /\ ListingAnswered
    /\ HasSearchText(req[Client])
    /\ req[Client].page = 2
    /\ req[Client].page_size = 2
    /\ res[Client].total = 3
    /\ Len(res[Client].items) = 1
    /\ \E x \in MatchingProducts(req[Client]), y \in MatchingProducts(req[Client]) :
           /\ x < y
           /\ Relevance(products[x], req[Client]) < Relevance(products[y], req[Client])
    /\ \E x \in MatchingProducts(req[Client]), y \in MatchingProducts(req[Client]) :
           /\ x # y
           /\ Relevance(products[x], req[Client]) = Relevance(products[y], req[Client])

\* C11: the ranks of an answered listing request are null when no search
\* text was given (missing, empty or whitespace only), and otherwise an array
\* as long as the items, the items empty and the total 0 when nothing matches.
C11_RanksNullWithoutSearch ==
    ListingAnswered =>
        LET q == req[Client]
            r == res[Client]
        IN /\ ~HasSearchText(q) => r.ranks = JsonNull
           /\ HasSearchText(q) =>
                  /\ r.ranks.type = "array"
                  /\ Len(r.ranks.values) = Len(r.items)
                  /\ MatchingProducts(q) = {} =>
                         r.items = <<>> /\ r.total = 0 /\ r.ranks.values = <<>>

----------------------------------------------------------------------------
\* C17: a listing request with both price bounds given and min_price above
\* max_price is answered 400 as it arrives, before the count and the page
\* query, and carries no result of them; with one bound, no bound, or
\* min_price <= max_price the request goes on to the count query and is
\* answered 200.
C17_RangeCheck ==
    /\ [](pc[Client] = "done" =>
            LET q == req[Client]
                r == res[Client]
                both == q.min_price # None /\ q.max_price # None
            IN /\ (both /\ q.min_price > q.max_price) =>
                      r.status = 400 /\ r.items = <<>> /\ r.total = 0
               /\ (~both \/ q.min_price <= q.max_price) =>
                      /\ r.status = 200
                      /\ r.total = Cardinality(MatchingProducts(q)))
    /\ [][(pc[Client] = "idle" /\ pc'[Client] # "idle") =>
            LET q == req'[Client]
                both == q.min_price # None /\ q.max_price # None
            IN IF both /\ q.min_price > q.max_price
               THEN pc'[Client] = "done" /\ res'[Client].status = 400
               ELSE pc'[Client] = "list_total" /\ res'[Client] = NoRes]_vars

\* min_price 2 above max_price 1 is refused although each bound alone has a
\* match in the catalogue
C17_Witness ==
    /\ pc[Client] = "done"
    /\ req[Client].min_price = 2 /\ req[Client].max_price = 1
    /\ res[Client].status = 400
    /\ \E id \in DOMAIN products : products[id].is_active /\ products[id].price >= 2
    /\ \E id \in DOMAIN products : products[id].is_active /\ products[id].price <= 1

====
